---- MODULE Spec2Model ----
(***************************************************************************)
(* pyhgtmap: the concurrent per-sub-tile processor (HgtFilesProcessor),    *)
(* its id allocator, its worker processes and the output encoders' shared  *)
(* write_nodes / write_ways / done contract.                               *)
(*                                                                         *)
(* Processes are identified by the task they were forked for: the main     *)
(* process, one possible worker per input file (process_file) and one      *)
(* possible worker per sub-tile (process_tile_internal).  A forked child   *)
(* starts with a copy of its parent's memory; only the two id counters,    *)
(* their locks and the semaphore are shared between processes.             *)
(***************************************************************************)
EXTENDS Integers, Sequences, FiniteSets, TLC

\* ---------------------------------------------------------------- bounds
NbFiles == 2
TilesPerFile == 1
MaxJobs == 2
MaxRows == 3
MaxHeight == 2
MaxBudget == 2
MaxLon == 2
MaxLat == 1
MaxPathLen == 5
MaxEpsilon == 1
MaxNodesPerWay == 4
MaxBack == 2
MaxInc == 8
MaxReservations == 2
MaxO5mBlocks == 2
MaxO5mNodes == 2
MaxO5mWays == 2
MaxStartId == 2
MaxElevation == 1
MaxStringCalls == 3
NbAreas == 2

\* ------------------------------------------------------ program constants
NodeStartId == 100
WayStartId == 200
MainPid == 0
None == 0

VARIABLES
  nb_jobs,             \* Configuration.nJobs
  single_output,       \* options.maxNodesPerTile == 0
  next_id,             \* shared: next_node_id / next_way_id
  lock,                \* shared: owner of each counter's lock
  available_children,  \* shared semaphore
  pc,                  \* control point of every process
  raised,              \* an exception is propagating in the process
  exitcode,            \* Process.exitcode once ended
  parent,              \* creator of every started process
  active_children,     \* per process copy: not yet joined children
  children_errors,     \* per process copy: (pid, exitcode) of failed children
  common_osm_output,   \* per process copy: the common encoder
  file_idx,            \* process_files: next file of the loop
  cur_file,            \* process_file: file being processed
  tile_idx,            \* process_file: next tile of the loop
  cur_tile,            \* process_tile_internal: tile
  join_idx,            \* join_children: list iterator position
  tile_contours,       \* process_tile_internal locals
  counter,
  previous_value,
  tile_node_start_id,
  tile_way_start_id,
  osm_output,
  new_start_id,
  ways,
  outputs,             \* every encoder allocated in the run
  tiles,               \* history: what happened to each sub-tile
  calls,               \* history: get_and_inc_counter calls
  errors_reported,     \* process_files logged the collected errors
  exit_code            \* exit code of the program

\* HgtFile.make_tiles (chop_data)
VARIABLES
  zData,               \* the height grid of the file, one sequence per row
  maxNodes,            \* opts.maxNodesPerTile
  chop_calls,          \* pending chop_data calls, the running one first
  hgt_tiles,           \* make_tiles: tiles
  chop_pc              \* control point of make_tiles

chopVars == <<zData, maxNodes, chop_calls, hgt_tiles, chop_pc>>

\* ContoursGenerator.trace and the encoders, on the paths of one elevation
VARIABLES
  input_path,          \* simplify_path: a raw contour line path
  rdp_epsilon,         \* ContoursGenerator.rdp_epsilon
  max_nodes_per_way,   \* ContoursGenerator.max_nodes_per_way
  deduped_path,        \* simplify_path: the returned path
  resultPaths,         \* trace: the split paths
  numOfNodes,          \* splitList / trace
  numOfPaths,          \* splitList / trace
  encoder,             \* the encoder that wrote the paths
  emitted,             \* what the finalized file holds, decoded
  trace_pc             \* control point

contourVars ==
  <<input_path, rdp_epsilon, max_nodes_per_way, deduped_path, resultPaths,
    numOfNodes, numOfPaths, encoder, emitted, trace_pc>>

\* the shared counter's C unsigned long and the ids computed from it
VARIABLES
  ulong_bits,          \* width of the C unsigned long of multiprocessing.Value("L")
  id_value,            \* counter.value, as limbs
  reservations,        \* get_and_inc_counter: the returned values and increments
  enc_result           \* write_nodes: start id, number of nodes, returned next id

idVars == <<ulong_bits, id_value, reservations, enc_result>>

\* o5mUtil.Output and its StringTable
VARIABLES
  outf,                \* the datasets written to the file
  last_node_id,        \* self.lastNodeId
  string_table,        \* self.stringTable.table; strings are numbers
  write_timestamp,     \* self.writeTimestamp
  o5m_given,           \* history: the nodes and ways given to the encoder
  string_call          \* history: the last stringOrIndex call of a table of its own

o5mVars == <<outf, last_node_id, string_table, write_timestamp, o5m_given,
             string_call>>

\* Source.get_file on the files of a cache directory
VARIABLES
  cache,               \* the file of each area in the cache directory
  get_file_pc,         \* control point of get_file, "idle" between two calls
  get_file_area,       \* get_file: area
  get_file_calls       \* history: per area, the checks, downloads and the result

sourceVars == <<cache, get_file_pc, get_file_area, get_file_calls>>

\* varint.int2str and varint.sint2str
VARIABLES
  varint_n,            \* the integer to write: sign and binary digits
  varint_fun,          \* the function called
  varint_bytes         \* the returned bytes

varintVars == <<varint_n, varint_fun, varint_bytes>>

\* the options, and the sequential components the processor's steps leave alone
configVars == <<nb_jobs, single_output, chopVars, contourVars, idVars, o5mVars,
               sourceVars, varintVars>>
sharedVars == <<next_id, lock, available_children>>
procVars == <<pc, raised, exitcode, parent, active_children, children_errors,
              common_osm_output>>
loopVars == <<file_idx, cur_file, tile_idx, cur_tile, join_idx>>
tileVars == <<tile_contours, counter, previous_value, tile_node_start_id,
              tile_way_start_id, osm_output, new_start_id, ways>>
histVars == <<outputs, tiles, calls, errors_reported, exit_code>>
vars == <<configVars, sharedVars, procVars, loopVars, tileVars, histVars>>

\* -------------------------------------------------------------- processes
NbTiles == NbFiles * TilesPerFile
Files == 1..NbFiles
Tiles == 1..NbTiles
FilePid(f) == f
TilePid(t) == NbFiles + t
Procs == 0..(NbFiles + NbTiles)
Workers == Procs \ {MainPid}
IsFileWorker(p) == p \in 1..NbFiles
IsTileWorker(p) == p > NbFiles
FileOfTile(t) == ((t - 1) \div TilesPerFile) + 1
TileOf(f, k) == (f - 1) * TilesPerFile + k
Counters == {"node", "way"}

\* ------------------------------------------------------ contours and ways
\* A path is a sequence of points; a contour list is the sequence of paths
\* of one elevation; contours is the sequence of contour lists in the order
\* of TileContours.contours.  Elevation k of the sequence is taken as k.
OpenPath == <<1, 2>>
ClosedPath == <<1, 2, 3, 1>>
ContourChoices ==
  { <<>>,
    << <<OpenPath>> >>,
    << <<>>, <<ClosedPath, OpenPath>> >> }

IsClosed(path) == path[1] = path[Len(path)]

RECURSIVE SumLen(_)
SumLen(pathList) ==
  IF pathList = <<>> THEN 0 ELSE Len(Head(pathList)) + SumLen(Tail(pathList))

NumOfClosedPaths(pathList) ==
  Cardinality({i \in 1..Len(pathList) : IsClosed(pathList[i])})

\* the closed paths are not taken into account
NumOfNodesAllPoints(pathList) == SumLen(pathList)

\* splitList's accounting of the nodes and ways "as written later"
NumOfNodes(pathList) == SumLen(pathList) - NumOfClosedPaths(pathList)
NumOfPaths(pathList) == Len(pathList)

RECURSIVE TotalNodes(_)
TotalNodes(contours) ==
  IF contours = <<>> THEN 0
  ELSE NumOfNodes(Head(contours)) + TotalNodes(Tail(contours))

RECURSIVE TotalWays(_)
TotalWays(contours) ==
  IF contours = <<>> THEN 0
  ELSE NumOfPaths(Head(contours)) + TotalWays(Tail(contours))

\* HgtTile.get_contours: the traced contours with their running totals
GetContoursResult(contours) ==
  [nb_nodes |-> TotalNodes(contours), nb_ways |-> TotalWays(contours),
   contours |-> contours]

NoContours == GetContoursResult(<<>>)

\* the last node of a closed path is written as well
MakePointsKeepLast(path, curId) ==
  [nodes |-> [i \in 1..Len(path) |-> curId + i - 1],
   ids |-> [i \in 1..Len(path) |->
              IF IsClosed(path) /\ i = Len(path) THEN curId ELSE curId + i - 1],
   curId |-> curId + Len(path)]

\* _makePoints: one node per point, ids counted from curId; for a closed
\* path the last node is removed and the first id is referenced again.
MakePoints(path, curId) ==
  LET n == Len(path)
      closed == IsClosed(path)
      kept == IF closed THEN n - 1 ELSE n
  IN [nodes |-> [i \in 1..kept |-> curId + i - 1],
      ids |-> [i \in 1..n |-> IF closed /\ i = n THEN curId ELSE curId + i - 1],
      curId |-> curId + kept]

WayOf(nodeRefs, elevation) ==
  IF nodeRefs[1] = nodeRefs[Len(nodeRefs)]
  THEN [first_node_id |-> nodeRefs[1], nb_nodes |-> Len(nodeRefs) - 1,
        closed_loop |-> TRUE, elevation |-> elevation]
  ELSE [first_node_id |-> nodeRefs[1], nb_nodes |-> Len(nodeRefs),
        closed_loop |-> FALSE, elevation |-> elevation]

\* _writeContourNodes / make_nodes_ways: the paths of one elevation
RECURSIVE MakeNodesWays(_, _, _)
MakeNodesWays(contourList, elevation, curId) ==
  IF contourList = <<>> THEN [nodes |-> <<>>, ways |-> <<>>, curId |-> curId]
  ELSE LET pts == MakePoints(Head(contourList), curId)
           rest == MakeNodesWays(Tail(contourList), elevation, pts.curId)
       IN [nodes |-> pts.nodes \o rest.nodes,
           ways |-> <<WayOf(pts.ids, elevation)>> \o rest.ways,
           curId |-> rest.curId]

\* writeXML / writeNodes: every elevation in turn (empty lists are skipped)
RECURSIVE WriteAll(_, _, _)
WriteAll(contours, k, curId) ==
  IF k > Len(contours) THEN [nodes |-> <<>>, ways |-> <<>>, curId |-> curId]
  ELSE LET one == MakeNodesWays(contours[k], k, curId)
           rest == WriteAll(contours, k + 1, one.curId)
       IN [nodes |-> one.nodes \o rest.nodes,
           ways |-> one.ways \o rest.ways,
           curId |-> rest.curId]

NodeEntry(id) == [kind |-> "node", id |-> id, refs |-> <<>>]
WayEntry(id, refs) == [kind |-> "way", id |-> id, refs |-> refs]
EndEntry == [kind |-> "end", id |-> 0, refs |-> <<>>]

\* Output.write_nodes: node elements go to the file at once; returns
\* (newId, ways)
WriteNodes(out, tc, start_node_id) ==
  LET w == WriteAll(tc.contours, 1, start_node_id)
  IN [out |-> [out EXCEPT !.file =
                 @ \o [i \in 1..Len(w.nodes) |-> NodeEntry(w.nodes[i])]],
      new_start_id |-> w.curId,
      ways |-> w.ways]

\* the ways are written at once instead of being kept for done()
WriteWaysEager(out, ws, start_way_id) ==
  [out EXCEPT !.file =
     @ \o [i \in 1..Len(ws) |->
             WayEntry(start_way_id + i - 1,
                      [j \in 1..ws[i].nb_nodes |-> ws[i].first_node_id + j - 1])]]

\* Output.write_ways: only remembers (ways, start_way_id)
WriteWays(out, ws, start_way_id) ==
  [out EXCEPT !.ways_pending_write = Append(@, <<ws, start_way_id>>)]

\* the references run one node too far
WriteWaysNowOffByOne(ws, start_way_id) ==
  [i \in 1..Len(ws) |->
     WayEntry(start_way_id + i - 1,
              [j \in 1..(ws[i].nb_nodes + 1) |-> ws[i].first_node_id + j - 1])]

\* Output._write_ways: the way elements of one pending batch
WriteWaysNow(ws, start_way_id) ==
  [i \in 1..Len(ws) |->
     WayEntry(start_way_id + i - 1,
              LET w == ws[i]
                  nodeIds == [j \in 1..w.nb_nodes |-> w.first_node_id + j - 1]
              IN IF w.closed_loop THEN Append(nodeIds, nodeIds[1]) ELSE nodeIds)]

RECURSIVE FlushPending(_)
FlushPending(pending) ==
  IF pending = <<>> THEN <<>>
  ELSE WriteWaysNow(Head(pending)[1], Head(pending)[2]) \o FlushPending(Tail(pending))

\* the container is closed without the pending ways
DoneNoFlush(out) ==
  [out EXCEPT !.file = @ \o <<EndEntry>>, !.done = @ + 1]

\* Output.done: writes the pending ways, then closes the container
Done(out) ==
  [out EXCEPT !.file = @ \o FlushPending(out.ways_pending_write) \o <<EndEntry>>,
              !.done = @ + 1]

\* a freshly constructed encoder (the preamble carries no ids)
NewOutput(t, p) ==
  [tile |-> t, pid |-> p, file |-> <<>>, ways_pending_write |-> <<>>, done |-> 0,
   closer |-> None - 1]


\* ------------------------------------------------------------------ state
NoOwner == None - 1
NoTile ==
  [runs |-> 0, status |-> "todo", pid |-> None, out |-> None,
   node_start |-> None, nb_nodes |-> 0, way_start |-> None, nb_ways |-> 0]

StartId(c) == IF c = "node" THEN NodeStartId ELSE WayStartId

\* make_tiles is not running
ChopIdle ==
  /\ zData = <<>>
  /\ maxNodes = 0
  /\ chop_calls = <<>>
  /\ hgt_tiles = <<>>
  /\ chop_pc = "idle"

NoEmission == [nodes |-> <<>>, ways |-> <<>>, newId |-> None]

\* no contour is being traced
ContourIdle ==
  /\ input_path = <<>>
  /\ rdp_epsilon = NoOwner
  /\ max_nodes_per_way = 0
  /\ deduped_path = <<>>
  /\ resultPaths = <<>>
  /\ numOfNodes = 0
  /\ numOfPaths = 0
  /\ encoder = "none"
  /\ emitted = NoEmission
  /\ trace_pc = "idle"

\* integers beyond 32 bits: NbLimbs digits of base LimbBase, lowest first
LimbBase == 65536
NbLimbs == 5
Limbs == 1..NbLimbs

\* 0 <= n < LimbBase * LimbBase
ToLimbs(n) ==
  [i \in Limbs |-> IF i = 1 THEN n % LimbBase
                   ELSE IF i = 2 THEN n \div LimbBase ELSE 0]

\* Python's int addition
LimbAdd(a, b) ==
  LET carry[i \in 0..NbLimbs] ==
        IF i = 0 THEN 0 ELSE (a[i] + b[i] + carry[i - 1]) \div LimbBase
  IN [i \in Limbs |-> (a[i] + b[i] + carry[i - 1]) % LimbBase]

LimbLess(a, b) ==
  \E i \in Limbs : a[i] < b[i] /\ \A j \in Limbs : j > i => a[j] = b[j]

\* the assignment to a c_ulong stores the low bits, without overflow check
StoreULong(x, bits) == [i \in Limbs |-> IF i * 16 <= bits THEN x[i] ELSE 0]

NoResult == [start |-> <<>>, nb |-> 0, next |-> <<>>]

\* no id has been asked for
IdsIdle ==
  /\ ulong_bits = 64
  /\ id_value = ToLimbs(NodeStartId)
  /\ reservations = <<>>
  /\ enc_result = NoResult

NoCall == [string |-> None, result |-> None, nb |-> 0]

\* no o5m file is open
O5mIdle ==
  /\ outf = <<>>
  /\ last_node_id = 0
  /\ string_table = <<>>
  /\ write_timestamp = FALSE
  /\ o5m_given = <<>>
  /\ string_call = NoCall

\* get_file has not been called
SourceIdle ==
  /\ cache = <<>>
  /\ get_file_pc = "idle"
  /\ get_file_area = None
  /\ get_file_calls = <<>>

\* nothing is being written as a varint
VarintIdle ==
  /\ varint_n = None
  /\ varint_fun = "none"
  /\ varint_bytes = <<>>

\* HgtFilesProcessor.__init__
InitProcessor ==
  /\ next_id = [c \in Counters |-> StartId(c)]
  /\ lock = [c \in Counters |-> NoOwner]
  /\ available_children = nb_jobs
  /\ pc = [p \in Procs |-> IF p = MainPid THEN "main_internal" ELSE "unborn"]
  /\ raised = [p \in Procs |-> FALSE]
  /\ exitcode = [p \in Procs |-> None]
  /\ parent = [p \in Procs |-> NoOwner]
  /\ active_children = [p \in Procs |-> <<>>]
  /\ children_errors = [p \in Procs |-> <<>>]
  /\ common_osm_output = [p \in Procs |-> None]
  /\ file_idx = 1
  /\ cur_file = [p \in Procs |-> None]
  /\ tile_idx = [p \in Procs |-> 1]
  /\ cur_tile = [p \in Procs |-> None]
  /\ join_idx = [p \in Procs |-> 1]
  /\ tile_contours = [p \in Procs |-> NoContours]
  /\ counter = [p \in Procs |-> "node"]
  /\ previous_value = [p \in Procs |-> None]
  /\ tile_node_start_id = [p \in Procs |-> None]
  /\ tile_way_start_id = [p \in Procs |-> None]
  /\ osm_output = [p \in Procs |-> None]
  /\ new_start_id = [p \in Procs |-> None]
  /\ ways = [p \in Procs |-> <<>>]
  /\ outputs = <<>>
  /\ tiles = [t \in Tiles |-> NoTile]
  /\ calls = {}
  /\ errors_reported = FALSE
  /\ exit_code = NoOwner

\* the program before main_internal has parsed its options
Init ==
  /\ nb_jobs \in 1..MaxJobs
  /\ single_output \in BOOLEAN
  /\ InitProcessor
  /\ ChopIdle
  /\ ContourIdle
  /\ IdsIdle
  /\ O5mIdle
  /\ SourceIdle
  /\ VarintIdle

\* the processor of a sequential run that has not started
ProcessorIdle ==
  /\ nb_jobs = 1
  /\ single_output = FALSE
  /\ InitProcessor

\* the components of the libraries, not in use
LibrariesIdle == SourceIdle /\ VarintIdle
libraryVars == <<sourceVars, varintVars>>

processorVars ==
  <<nb_jobs, single_output, sharedVars, procVars, loopVars, tileVars, histVars>>

Parallel == nb_jobs > 1
\* make_tiles: with maxNodes == 0 a file is never chopped
NbTilesOfFile == IF single_output THEN 1 ELSE TilesPerFile
IsAlive(p) == pc[p] # "ended"

\* ------------------------------------------------------------- main_internal
\* sys.exit(1), or an exception nothing catches, against a normal return
ExitCode(failed) == IF failed THEN 1 ELSE 0

\* parseCommandLine either exits with code 1 or lets the run start
ParseCommandLine ==
  /\ pc[MainPid] = "main_internal"
  /\ \/ /\ pc' = [pc EXCEPT ![MainPid] = "process_files"]
        /\ UNCHANGED exit_code
     \/ /\ pc' = [pc EXCEPT ![MainPid] = "cli_exit"]
        /\ exit_code' = ExitCode(TRUE)
  /\ UNCHANGED <<configVars, sharedVars, raised, exitcode, parent, active_children,
                 children_errors, common_osm_output, loopVars, tileVars,
                 outputs, tiles, calls, errors_reported>>

\* get_osm_output: a new encoder unless a common one is kept
GetOsmOutputId(p) ==
  IF common_osm_output[p] = None THEN Len(outputs) + 1 ELSE common_osm_output[p]

GetOsmOutputAlloc(p, t) ==
  IF common_osm_output[p] = None THEN Append(outputs, NewOutput(t, p)) ELSE outputs

\* the encoder is never kept for later calls
GetOsmOutputKeepNever(p) == common_osm_output

GetOsmOutputKeep(p) ==
  IF common_osm_output[p] = None /\ single_output
  THEN [common_osm_output EXCEPT ![p] = Len(outputs) + 1]
  ELSE common_osm_output

\* process_files, up to its loop: the common encoder of single output mode
ProcessFilesStart ==
  /\ pc[MainPid] = "process_files"
  /\ IF single_output
     THEN /\ outputs' = GetOsmOutputAlloc(MainPid, None)
          /\ common_osm_output' = GetOsmOutputKeep(MainPid)
     ELSE UNCHANGED <<outputs, common_osm_output>>
  /\ pc' = [pc EXCEPT ![MainPid] = "files_loop"]
  /\ UNCHANGED <<configVars, sharedVars, raised, exitcode, parent, active_children,
                 children_errors, loopVars, tileVars,
                 tiles, calls, errors_reported, exit_code>>

\* single output mode is not looked at
ForkAllowedAnyMode == Parallel

\* try_parallelizing's test, and its non-blocking acquire
ForkAllowed == Parallel /\ ~single_output
SlotFree == available_children > 0

\* try_parallelizing, first branch: p forks child c, which starts with a copy
\* of p's memory (p.start()), and p goes on to join_children(skip_active=True)
Fork(p, c) ==
  /\ available_children' = available_children - 1
  /\ active_children' = [active_children EXCEPT
                           ![p] = Append(@, c),
                           ![c] = Append(active_children[p], c)]
  /\ children_errors' = [children_errors EXCEPT ![c] = children_errors[p]]
  /\ common_osm_output' = [common_osm_output EXCEPT ![c] = common_osm_output[p]]
  /\ parent' = [parent EXCEPT ![c] = p]
  /\ pc' = [pc EXCEPT ![p] = "join_skip", ![c] = "run_in_child"]
  /\ join_idx' = [join_idx EXCEPT ![p] = 1]

\* process_files: one turn of "for file_name, check_poly in files"
ScheduleFile ==
  /\ pc[MainPid] = "files_loop"
  /\ file_idx <= NbFiles
  /\ file_idx' = file_idx + 1
  /\ IF ForkAllowed /\ SlotFree
     THEN /\ Fork(MainPid, FilePid(file_idx))
          /\ UNCHANGED <<cur_file, tile_idx>>
     ELSE /\ cur_file' = [cur_file EXCEPT ![MainPid] = file_idx]
          /\ tile_idx' = [tile_idx EXCEPT ![MainPid] = 1]
          /\ pc' = [pc EXCEPT ![MainPid] = "tiles_loop"]
          /\ UNCHANGED <<available_children, active_children, children_errors,
                         common_osm_output, parent, join_idx>>
  /\ UNCHANGED <<configVars, next_id, lock, raised, exitcode, cur_tile, tileVars,
                 histVars>>

\* process_files: the loop is over, join_children()
FilesDone ==
  /\ pc[MainPid] = "files_loop"
  /\ file_idx > NbFiles
  /\ pc' = [pc EXCEPT ![MainPid] = "join_all"]
  /\ join_idx' = [join_idx EXCEPT ![MainPid] = 1]
  /\ UNCHANGED <<configVars, sharedVars, raised, exitcode, parent, active_children,
                 children_errors, common_osm_output, file_idx, cur_file, tile_idx,
                 cur_tile, tileVars, histVars>>

\* process_file: one turn of "for tile in hgt_tiles"
ScheduleTile(p) ==
  /\ pc[p] = "tiles_loop"
  /\ tile_idx[p] <= NbTilesOfFile
  /\ tile_idx' = [tile_idx EXCEPT ![p] = @ + 1]
  /\ LET t == TileOf(cur_file[p], tile_idx[p]) IN
     IF ForkAllowed /\ SlotFree
     THEN /\ Fork(p, TilePid(t))
          /\ UNCHANGED <<cur_tile>>
     ELSE /\ cur_tile' = [cur_tile EXCEPT ![p] = t]
          /\ pc' = [pc EXCEPT ![p] = "process_tile"]
          /\ UNCHANGED <<available_children, active_children, children_errors,
                         common_osm_output, parent, join_idx>>
  /\ UNCHANGED <<configVars, next_id, lock, raised, exitcode, file_idx, cur_file,
                 tileVars, histVars>>

\* where a process goes on when the function it runs returns
AfterFile(p) == IF p = MainPid THEN "files_loop" ELSE "child_finally"
\* the end of a sub-tile ends the process's work
AfterTileStops(p) == IF p = MainPid THEN "raised" ELSE "child_finally"

AfterTile(p) == IF IsTileWorker(p) THEN "child_finally" ELSE "tiles_loop"
\* where an exception that nothing catches takes a process
AfterRaise(p) == IF p = MainPid THEN "raised" ELSE "child_finally"

\* process_file: the loop is over
ProcessFileDone(p) ==
  /\ pc[p] = "tiles_loop"
  /\ tile_idx[p] > NbTilesOfFile
  /\ pc' = [pc EXCEPT ![p] = AfterFile(p)]
  /\ cur_file' = [cur_file EXCEPT ![p] = None]
  /\ UNCHANGED <<configVars, sharedVars, raised, exitcode, parent, active_children,
                 children_errors, common_osm_output, file_idx, tile_idx,
                 cur_tile, join_idx, tileVars, histVars>>


\* ------------------------------------------------------------ join_children
RECURSIVE RemoveFirst(_, _)
RemoveFirst(list, x) ==
  IF list = <<>> THEN <<>>
  ELSE IF Head(list) = x THEN Tail(list)
  ELSE <<Head(list)>> \o RemoveFirst(Tail(list), x)

\* "for p in self.active_children": the list iterator holds a position in the
\* list itself, and the body removes from that list
JoinErrors(errors, c) ==
  IF exitcode[c] # 0 /\ c # 0 THEN Append(errors, <<c, exitcode[c]>>) ELSE errors

InJoin(p) == pc[p] \in {"join_skip", "join_all"}

\* skip_active and p.is_alive(): continue
JoinChildrenSkip(p) ==
  /\ pc[p] = "join_skip"
  /\ join_idx[p] <= Len(active_children[p])
  /\ IsAlive(active_children[p][join_idx[p]])
  /\ join_idx' = [join_idx EXCEPT ![p] = @ + 1]
  /\ UNCHANGED <<configVars, sharedVars, procVars, file_idx, cur_file, tile_idx,
                 cur_tile, tileVars, histVars>>

\* p.join() (waits for the child to end), exit code check, remove
JoinChildrenJoin(p) ==
  /\ InJoin(p)
  /\ join_idx[p] <= Len(active_children[p])
  /\ LET c == active_children[p][join_idx[p]] IN
       /\ ~IsAlive(c)
       /\ children_errors' = [children_errors EXCEPT ![p] = JoinErrors(@, c)]
       /\ active_children' = [active_children EXCEPT ![p] = RemoveFirst(@, c)]
       /\ join_idx' = [join_idx EXCEPT ![p] = @ + 1]
  /\ UNCHANGED <<configVars, sharedVars, pc, raised, exitcode, parent,
                 common_osm_output, file_idx, cur_file, tile_idx, cur_tile,
                 tileVars, histVars>>

\* the iterator is exhausted: join_children returns to its caller
JoinChildrenEnd(p) ==
  /\ InJoin(p)
  /\ join_idx[p] > Len(active_children[p])
  /\ pc' = [pc EXCEPT ![p] =
              IF pc[p] = "join_all" THEN "finish"
              ELSE IF cur_file[p] = None THEN "files_loop" ELSE "tiles_loop"]
  /\ UNCHANGED <<configVars, sharedVars, raised, exitcode, parent, active_children,
                 children_errors, common_osm_output, loopVars, tileVars, histVars>>

\* -------------------------------------------------------------- run_in_child
\* clears the inherited list of children and calls func
RunInChild(p) ==
  /\ pc[p] = "run_in_child"
  /\ active_children' = [active_children EXCEPT ![p] = <<>>]
  /\ IF IsFileWorker(p)
     THEN /\ cur_file' = [cur_file EXCEPT ![p] = p]
          /\ tile_idx' = [tile_idx EXCEPT ![p] = 1]
          /\ pc' = [pc EXCEPT ![p] = "tiles_loop"]
          /\ UNCHANGED cur_tile
     ELSE /\ cur_file' = [cur_file EXCEPT ![p] = FileOfTile(p - NbFiles)]
          /\ cur_tile' = [cur_tile EXCEPT ![p] = p - NbFiles]
          /\ pc' = [pc EXCEPT ![p] = "process_tile"]
          /\ UNCHANGED tile_idx
  /\ UNCHANGED <<configVars, sharedVars, raised, exitcode, parent,
                 children_errors, common_osm_output, file_idx, join_idx,
                 tileVars, histVars>>

\* the slot is kept
ReleaseSlotNever(n) == n

\* finally: self.available_children.release()
ReleaseSlot(n) == n + 1

ChildFinally(p) ==
  /\ pc[p] = "child_finally"
  /\ available_children' = ReleaseSlot(available_children)
  /\ pc' = [pc EXCEPT ![p] = "child_exit"]
  /\ UNCHANGED <<configVars, next_id, lock, raised, exitcode, parent, active_children,
                 children_errors, common_osm_output, loopVars, tileVars, histVars>>

\* a process ends once the children it started have ended (multiprocessing
\* joins them on exit); the worker's exit code is 1 after an exception
OwnChildrenEnded(p) == \A c \in Workers : parent[c] = p => pc[c] \in {"unborn", "ended"}

ChildExit(p) ==
  /\ pc[p] = "child_exit"
  /\ OwnChildrenEnded(p)
  /\ exitcode' = [exitcode EXCEPT ![p] = IF raised[p] THEN 1 ELSE 0]
  /\ pc' = [pc EXCEPT ![p] = "ended"]
  /\ UNCHANGED <<configVars, sharedVars, raised, parent, active_children,
                 children_errors, common_osm_output, loopVars, tileVars, histVars>>


\* ----------------------------------------------------- process_tile_internal
\* the locals of process_tile_internal go away when it returns or raises
ForgetTile(p) ==
  /\ tile_contours' = [tile_contours EXCEPT ![p] = NoContours]
  /\ counter' = [counter EXCEPT ![p] = "node"]
  /\ previous_value' = [previous_value EXCEPT ![p] = None]
  /\ tile_node_start_id' = [tile_node_start_id EXCEPT ![p] = None]
  /\ tile_way_start_id' = [tile_way_start_id EXCEPT ![p] = None]
  /\ osm_output' = [osm_output EXCEPT ![p] = None]
  /\ new_start_id' = [new_start_id EXCEPT ![p] = None]
  /\ ways' = [ways EXCEPT ![p] = <<>>]
  /\ cur_tile' = [cur_tile EXCEPT ![p] = None]

\* every tile is taken to hold nodes
NoNodeNever(tc) == FALSE

\* if tile_contours.nb_nodes == 0: skip
NoNode(tc) == tc.nb_nodes = 0

\* tile.get_contours() returns; a tile without any node is skipped
GetContours(p) ==
  /\ pc[p] = "process_tile"
  /\ \E c \in ContourChoices :
       LET tc == GetContoursResult(c)
           t == cur_tile[p]
       IN IF NoNode(tc)
          THEN /\ tiles' = [tiles EXCEPT ![t].runs = @ + 1, ![t].pid = p,
                                         ![t].status = "skipped"]
               /\ pc' = [pc EXCEPT ![p] = AfterTile(p)]
               /\ ForgetTile(p)
          ELSE /\ tiles' = [tiles EXCEPT ![t].runs = @ + 1, ![t].pid = p,
                                         ![t].status = "running",
                                         ![t].nb_nodes = tc.nb_nodes,
                                         ![t].nb_ways = tc.nb_ways]
               /\ tile_contours' = [tile_contours EXCEPT ![p] = tc]
               /\ counter' = [counter EXCEPT ![p] = "node"]
               /\ pc' = [pc EXCEPT ![p] = "gic_lock"]
               /\ UNCHANGED <<cur_tile, previous_value, tile_node_start_id,
                              tile_way_start_id, osm_output, new_start_id, ways>>
  /\ UNCHANGED <<configVars, sharedVars, raised, exitcode, parent, active_children,
                 children_errors, common_osm_output, file_idx, cur_file, tile_idx,
                 join_idx, outputs, calls, errors_reported, exit_code>>

\* tile.get_contours() raises ValueError: the tile is discarded
GetContoursValueError(p) ==
  /\ pc[p] = "process_tile"
  /\ tiles' = [tiles EXCEPT ![cur_tile[p]].runs = @ + 1, ![cur_tile[p]].pid = p,
                            ![cur_tile[p]].status = "discarded"]
  /\ pc' = [pc EXCEPT ![p] = AfterTile(p)]
  /\ ForgetTile(p)
  /\ UNCHANGED <<configVars, sharedVars, raised, exitcode, parent, active_children,
                 children_errors, common_osm_output, file_idx, cur_file, tile_idx,
                 join_idx, outputs, calls, errors_reported, exit_code>>

\* tile.get_contours() raises anything else: nothing catches it before
\* run_in_child (in a worker) or the top of the program (in the main process)
GetContoursRaises(p) ==
  /\ pc[p] = "process_tile"
  /\ tiles' = [tiles EXCEPT ![cur_tile[p]].runs = @ + 1, ![cur_tile[p]].pid = p,
                            ![cur_tile[p]].status = "failed"]
  /\ raised' = [raised EXCEPT ![p] = TRUE]
  /\ pc' = [pc EXCEPT ![p] = AfterRaise(p)]
  /\ ForgetTile(p)
  /\ UNCHANGED <<configVars, sharedVars, exitcode, parent, active_children,
                 children_errors, common_osm_output, file_idx, cur_file, tile_idx,
                 join_idx, outputs, calls, errors_reported, exit_code>>

\* ------------------------------------------------------ get_and_inc_counter
IncValue(p) ==
  IF counter[p] = "node" THEN tile_contours[p].nb_nodes ELSE tile_contours[p].nb_ways

\* the lock is not taken into account
CanAcquireUnlocked(c) == TRUE

\* with counter.get_lock():
CanAcquire(c) == lock[c] = NoOwner

GicLock(p) ==
  /\ pc[p] = "gic_lock"
  /\ CanAcquire(counter[p])
  /\ lock' = [lock EXCEPT ![counter[p]] = p]
  /\ pc' = [pc EXCEPT ![p] = "gic_read"]
  /\ UNCHANGED <<configVars, next_id, available_children, raised, exitcode, parent,
                 active_children, children_errors, common_osm_output, loopVars,
                 tileVars, histVars>>

\* previous_value = counter.value
GicRead(p) ==
  /\ pc[p] = "gic_read"
  /\ previous_value' = [previous_value EXCEPT ![p] = next_id[counter[p]]]
  /\ pc' = [pc EXCEPT ![p] = "gic_add"]
  /\ UNCHANGED <<configVars, sharedVars, raised, exitcode, parent, active_children,
                 children_errors, common_osm_output, loopVars, tile_contours,
                 counter, tile_node_start_id, tile_way_start_id, osm_output,
                 new_start_id, ways, histVars>>

\* the counter is left as it was
IncrementedNot(value, inc_value) == value

\* counter.value += inc_value
Incremented(value, inc_value) == value + inc_value

GicAdd(p) ==
  /\ pc[p] = "gic_add"
  /\ next_id' = [next_id EXCEPT ![counter[p]] = Incremented(@, IncValue(p))]
  /\ calls' = calls \cup {[counter |-> counter[p], tile |-> cur_tile[p],
                           before |-> next_id[counter[p]],
                           ret |-> previous_value[p], delta |-> IncValue(p)]}
  /\ pc' = [pc EXCEPT ![p] = "gic_unlock"]
  /\ UNCHANGED <<configVars, lock, available_children, raised, exitcode, parent,
                 active_children, children_errors, common_osm_output, loopVars,
                 tileVars, outputs, tiles, errors_reported, exit_code>>

\* the lock is released and previous_value returned to process_tile_internal
GicUnlock(p) ==
  /\ pc[p] = "gic_unlock"
  /\ lock' = [lock EXCEPT ![counter[p]] = NoOwner]
  /\ IF counter[p] = "node"
     THEN /\ tile_node_start_id' = [tile_node_start_id EXCEPT ![p] = previous_value[p]]
          /\ tiles' = [tiles EXCEPT ![cur_tile[p]].node_start = previous_value[p]]
          /\ counter' = [counter EXCEPT ![p] = "way"]
          /\ pc' = [pc EXCEPT ![p] = "gic_lock"]
          /\ UNCHANGED tile_way_start_id
     ELSE /\ tile_way_start_id' = [tile_way_start_id EXCEPT ![p] = previous_value[p]]
          /\ tiles' = [tiles EXCEPT ![cur_tile[p]].way_start = previous_value[p],
                                    ![cur_tile[p]].status = "reserved"]
          /\ pc' = [pc EXCEPT ![p] = "get_osm_output"]
          /\ UNCHANGED <<tile_node_start_id, counter>>
  /\ UNCHANGED <<configVars, next_id, available_children, raised, exitcode, parent,
                 active_children, children_errors, common_osm_output, loopVars,
                 tile_contours, previous_value, osm_output, new_start_id, ways,
                 outputs, calls, errors_reported, exit_code>>

\* ------------------------------------------- process_tile_internal, writing
GetOsmOutput(p) ==
  /\ pc[p] = "get_osm_output"
  /\ osm_output' = [osm_output EXCEPT ![p] = GetOsmOutputId(p)]
  /\ outputs' = GetOsmOutputAlloc(p, cur_tile[p])
  /\ common_osm_output' = GetOsmOutputKeep(p)
  /\ tiles' = [tiles EXCEPT ![cur_tile[p]].out = GetOsmOutputId(p)]
  /\ pc' = [pc EXCEPT ![p] = "write_nodes"]
  /\ UNCHANGED <<configVars, sharedVars, raised, exitcode, parent, active_children,
                 children_errors, loopVars, tile_contours, counter, previous_value,
                 tile_node_start_id, tile_way_start_id, new_start_id, ways,
                 calls, errors_reported, exit_code>>

CallWriteNodes(p) ==
  /\ pc[p] = "write_nodes"
  /\ LET r == WriteNodes(outputs[osm_output[p]], tile_contours[p],
                         tile_node_start_id[p])
     IN /\ outputs' = [outputs EXCEPT ![osm_output[p]] = r.out]
        /\ new_start_id' = [new_start_id EXCEPT ![p] = r.new_start_id]
        /\ ways' = [ways EXCEPT ![p] = r.ways]
  /\ pc' = [pc EXCEPT ![p] = "write_ways"]
  /\ UNCHANGED <<configVars, sharedVars, raised, exitcode, parent, active_children,
                 children_errors, common_osm_output, loopVars, tile_contours,
                 counter, previous_value, tile_node_start_id, tile_way_start_id,
                 osm_output, tiles, calls, errors_reported, exit_code>>

\* done() is left out
AfterWriteWaysNoDone == "tile_return"

\* if not self.single_output: osm_output.done()
AfterWriteWays == IF ~single_output THEN "done" ELSE "tile_return"

CallWriteWays(p) ==
  /\ pc[p] = "write_ways"
  /\ outputs' = [outputs EXCEPT ![osm_output[p]] =
                   WriteWays(@, ways[p], tile_way_start_id[p])]
  /\ pc' = [pc EXCEPT ![p] = AfterWriteWays]
  /\ UNCHANGED <<configVars, sharedVars, raised, exitcode, parent, active_children,
                 children_errors, common_osm_output, loopVars, tileVars,
                 tiles, calls, errors_reported, exit_code>>

CallDone(p) ==
  /\ pc[p] = "done"
  /\ outputs' = [outputs EXCEPT ![osm_output[p]] = [Done(@) EXCEPT !.closer = p]]
  /\ pc' = [pc EXCEPT ![p] = "tile_return"]
  /\ UNCHANGED <<configVars, sharedVars, raised, exitcode, parent, active_children,
                 children_errors, common_osm_output, loopVars, tileVars,
                 tiles, calls, errors_reported, exit_code>>

\* the two mismatch checks only log; process_tile_internal returns
TileReturn(p) ==
  /\ pc[p] = "tile_return"
  /\ tiles' = [tiles EXCEPT ![cur_tile[p]].status = "written"]
  /\ pc' = [pc EXCEPT ![p] = AfterTile(p)]
  /\ ForgetTile(p)
  /\ UNCHANGED <<configVars, sharedVars, raised, exitcode, parent, active_children,
                 children_errors, common_osm_output, file_idx, cur_file, tile_idx,
                 join_idx, outputs, calls, errors_reported, exit_code>>

\* ------------------------------------------------- process_files, the end
\* the collected errors are logged; the common encoder is finalized
Finish ==
  /\ pc[MainPid] = "finish"
  /\ errors_reported' = (children_errors[MainPid] # <<>>)
  /\ IF single_output /\ common_osm_output[MainPid] # None
     THEN /\ outputs' = [outputs EXCEPT ![common_osm_output[MainPid]] =
                             [Done(@) EXCEPT !.closer = MainPid]]
          /\ common_osm_output' = [common_osm_output EXCEPT ![MainPid] = None]
     ELSE UNCHANGED <<outputs, common_osm_output>>
  /\ pc' = [pc EXCEPT ![MainPid] = "returned"]
  /\ UNCHANGED <<configVars, sharedVars, raised, exitcode, parent, active_children,
                 children_errors, loopVars, tileVars, tiles, calls, exit_code>>

\* main_internal returns (exit code 0) or dies of the exception (exit code 1)
MainExit ==
  /\ pc[MainPid] \in {"returned", "raised"}
  /\ OwnChildrenEnded(MainPid)
  /\ exit_code' = ExitCode(pc[MainPid] = "raised")
  /\ pc' = [pc EXCEPT ![MainPid] = "exited"]
  /\ UNCHANGED <<configVars, sharedVars, raised, exitcode, parent, active_children,
                 children_errors, common_osm_output, loopVars, tileVars,
                 outputs, tiles, calls, errors_reported>>

Next ==
  \/ ParseCommandLine
  \/ ProcessFilesStart
  \/ ScheduleFile
  \/ FilesDone
  \/ Finish
  \/ MainExit
  \/ \E p \in Procs :
       \/ ScheduleTile(p)
       \/ ProcessFileDone(p)
       \/ JoinChildrenSkip(p)
       \/ JoinChildrenJoin(p)
       \/ JoinChildrenEnd(p)
       \/ RunInChild(p)
       \/ ChildFinally(p)
       \/ ChildExit(p)
       \/ GetContours(p)
       \/ GetContoursValueError(p)
       \/ GetContoursRaises(p)
       \/ GicLock(p)
       \/ GicRead(p)
       \/ GicAdd(p)
       \/ GicUnlock(p)
       \/ GetOsmOutput(p)
       \/ CallWriteNodes(p)
       \/ CallWriteWays(p)
       \/ CallDone(p)
       \/ TileReturn(p)

Spec == Init /\ [][Next]_vars


\* ---------------------------------------------------------------- make_tiles
\* Grids of two columns: a row is a pair of heights, already divided by the
\* contour step.  Voids and polygons are left out.
Heights == 0..MaxHeight
GridRows == Heights \X Heights
Grids == UNION {[1..n -> GridRows] : n \in 1..MaxRows}

Abs(x) == IF x < 0 THEN -x ELSE x

RECURSIVE SumOver(_, _)
SumOver(f, n) == IF n = 0 THEN 0 ELSE f[n] + SumOver(f, n - 1)

\* estim_num_of_nodes: the sum of the absolute differences of neighbours,
\* along the rows and along the columns
EstimNumOfNodes(data) ==
  LET n == Len(data)
      xHelpData == [i \in 1..n |-> Abs(data[i][2] - data[i][1])]
      yHelpData == [i \in 1..(n - 1) |->
                      Abs(data[i + 1][1] - data[i][1]) + Abs(data[i + 1][2] - data[i][2])]
  IN SumOver(xHelpData, n) + SumOver(yHelpData, n - 1)

\* too_many_nodes
TooManyNodes(data) == IF maxNodes = 0 THEN FALSE ELSE EstimNumOfNodes(data) > maxNodes

\* get_chops: chopLatIndex = int(rows / 2.0);
\* lowerChopData = unchoppedData[chopLatIndex:, :]
LowerChopData(unchoppedData) ==
  SubSeq(unchoppedData, (Len(unchoppedData) \div 2) + 1, Len(unchoppedData))

\* the upper chop ends above the chop row
UpperChopDataDisjoint(unchoppedData) ==
  SubSeq(unchoppedData, 1, Len(unchoppedData) \div 2)

\* upperChopData = unchoppedData[: chopLatIndex + 1, :]
UpperChopData(unchoppedData) ==
  SubSeq(unchoppedData, 1, (Len(unchoppedData) \div 2) + 1)

\* bounding boxes, in units of lonIncrement and latIncrement
BBox(min_lon, min_lat, max_lon, max_lat) ==
  [min_lon |-> min_lon, min_lat |-> min_lat, max_lon |-> max_lon, max_lat |-> max_lat]

\* chopLat = unchoppedBboxMaxLat - (chopLatIndex * self.latIncrement)
ChopLat(unchoppedBbox, unchoppedData) ==
  unchoppedBbox.max_lat - (Len(unchoppedData) \div 2)

LowerChopBbox(unchoppedBbox, unchoppedData) ==
  BBox(unchoppedBbox.min_lon, unchoppedBbox.min_lat, unchoppedBbox.max_lon,
       ChopLat(unchoppedBbox, unchoppedData))

UpperChopBbox(unchoppedBbox, unchoppedData) ==
  BBox(unchoppedBbox.min_lon, ChopLat(unchoppedBbox, unchoppedData),
       unchoppedBbox.max_lon, unchoppedBbox.max_lat)

\* the box of a whole file: one increment between two rows or columns
FileBbox(data) == BBox(0, 0, 1, Len(data) - 1)

\* the depth at which the interpreter raises RecursionError; a chopper that
\* shrinks its pieces stops long before
RecursionLimit == MaxRows + 2

ChopCall(bbox, data, depth) == [bbox |-> bbox, data |-> data, depth |-> depth]

InitChop ==
  /\ ProcessorIdle
  /\ LibrariesIdle
  /\ ContourIdle
  /\ IdsIdle
  /\ O5mIdle
  /\ zData \in Grids
  /\ maxNodes \in 0..MaxBudget
  /\ chop_calls = <<ChopCall(FileBbox(zData), zData, 0)>>
  /\ hgt_tiles = <<>>
  /\ chop_pc = "chop_data"

\* chop_data on a piece that is too big: chop_data on the lower chop, then on
\* the upper chop
ChopDataChops ==
  /\ chop_pc = "chop_data"
  /\ chop_calls # <<>>
  /\ LET call == Head(chop_calls) IN
       /\ TooManyNodes(call.data)
       /\ call.depth < RecursionLimit
       /\ chop_calls' = <<ChopCall(LowerChopBbox(call.bbox, call.data),
                                   LowerChopData(call.data), call.depth + 1),
                          ChopCall(UpperChopBbox(call.bbox, call.data),
                                   UpperChopData(call.data), call.depth + 1)>>
                        \o Tail(chop_calls)
  /\ UNCHANGED <<zData, maxNodes, hgt_tiles, chop_pc, processorVars, contourVars, idVars, o5mVars, libraryVars>>

\* the calls are nested too deep: RecursionError
ChopDataRecursionError ==
  /\ chop_pc = "chop_data"
  /\ chop_calls # <<>>
  /\ TooManyNodes(Head(chop_calls).data)
  /\ Head(chop_calls).depth >= RecursionLimit
  /\ chop_pc' = "RecursionError"
  /\ UNCHANGED <<zData, maxNodes, chop_calls, hgt_tiles, processorVars, contourVars, idVars, o5mVars, libraryVars>>

\* chop_data on a piece that is small enough: tiles.append(HgtTile(...))
ChopDataAppends ==
  /\ chop_pc = "chop_data"
  /\ chop_calls # <<>>
  /\ ~TooManyNodes(Head(chop_calls).data)
  /\ hgt_tiles' = Append(hgt_tiles, Head(chop_calls).data)
  /\ chop_calls' = Tail(chop_calls)
  /\ UNCHANGED <<zData, maxNodes, chop_pc, processorVars, contourVars, idVars, o5mVars, libraryVars>>

\* make_tiles: return tiles
MakeTilesReturns ==
  /\ chop_pc = "chop_data"
  /\ chop_calls = <<>>
  /\ chop_pc' = "returned"
  /\ UNCHANGED <<zData, maxNodes, chop_calls, hgt_tiles, processorVars, contourVars, idVars, o5mVars, libraryVars>>

NextChop ==
  \/ ChopDataChops
  \/ ChopDataRecursionError
  \/ ChopDataAppends
  \/ MakeTilesReturns

SpecChop == InitChop /\ [][NextChop]_vars


\* --------------------------------------------------- simplify_path, splitList
\* A point is a (lon, lat) pair of a small grid.  A raw path is a line of
\* distinct points, open, or closed by its first point.
Points == (0..MaxLon) \X (0..MaxLat)

DistinctPoints(path) ==
  \A i \in 1..Len(path) : \A j \in 1..Len(path) : i # j => path[i] # path[j]

OpenRawPaths ==
  {p \in UNION {[1..n -> Points] : n \in 2..MaxPathLen} : DistinctPoints(p)}

ClosedRawPaths ==
  {Append(p, p[1]) : p \in {q \in OpenRawPaths : Len(q) >= 3 /\ Len(q) < MaxPathLen}}

RawPaths == OpenRawPaths \cup ClosedRawPaths

\* contour lines with one point traced twice in a row
DupRawPaths ==
  UNION {{SubSeq(p, 1, i) \o SubSeq(p, i, Len(p)) : i \in 1..Len(p)} :
           p \in {q \in RawPaths : Len(q) < MaxPathLen}}

NoEpsilon == None - 1

\* rdp's distance of point P to the line through S and E, or to S when the
\* two are the same point, as the fraction Num / Den of the squares
Dist2Num(P, S, E) ==
  IF S = E
  THEN (P[1] - S[1]) * (P[1] - S[1]) + (P[2] - S[2]) * (P[2] - S[2])
  ELSE LET cross == (P[1] - S[1]) * (E[2] - S[2]) - (P[2] - S[2]) * (E[1] - S[1])
       IN cross * cross

Dist2Den(S, E) ==
  IF S = E THEN 1
  ELSE (E[1] - S[1]) * (E[1] - S[1]) + (E[2] - S[2]) * (E[2] - S[2])

\* the first point at the greatest distance, 0 when every distance is 0
FarthestIndex(M) ==
  LET n == Len(M)
      d(i) == Dist2Num(M[i], M[1], M[n])
  IN IF \A i \in 2..n : d(i) = 0 THEN 0
     ELSE CHOOSE i \in 2..n :
            /\ \A j \in 2..n : d(j) <= d(i)
            /\ \A j \in 2..(i - 1) : d(j) < d(i)

\* rdp(path, epsilon): Ramer-Douglas-Peucker
RECURSIVE Rdp(_, _)
Rdp(M, epsilon) ==
  LET n == Len(M)
      index == FarthestIndex(M)
  IN IF index # 0
        /\ Dist2Num(M[index], M[1], M[n]) > epsilon * epsilon * Dist2Den(M[1], M[n])
     THEN LET r1 == Rdp(SubSeq(M, 1, index), epsilon)
              r2 == Rdp(SubSeq(M, index, n), epsilon)
          IN SubSeq(r1, 1, Len(r1) - 1) \o r2
     ELSE <<M[1], M[n]>>

\* simplify_path (the removal of duplicated consecutive points is commented
\* out in the code)
SimplifyPath(path, epsilon) ==
  IF epsilon # NoEpsilon THEN Rdp(path, epsilon) ELSE path

Min(a, b) == IF a < b THEN a ELSE b

\* range(0, stop, step) as the sequence of its values
RECURSIVE Range(_, _, _)
Range(start, stop, step) ==
  IF start >= stop THEN <<>> ELSE <<start>> \o Range(start + step, stop, step)

\* consecutive chunks share no point
SplitStepDisjoint(length) == length

\* the step of splitList's range
SplitStep(length) == length - 1

\* splitList: tmpList
TmpList(input_list, length) ==
  IF length = 0 \/ Len(input_list) <= length
  THEN <<input_list>>
  ELSE LET starts == Range(0, Len(input_list) - 1, SplitStep(length))
       IN [k \in 1..Len(starts) |->
             SubSeq(input_list, starts[k] + 1,
                    Min(starts[k] + length, Len(input_list)))]

\* range() arg 3 must not be zero
SplitListRaises(input_list, length) ==
  /\ Len(input_list) >= 2
  /\ length # 0 /\ Len(input_list) > length
  /\ SplitStep(length) = 0

\* splitList: (pathList, numOfNodes, numOfPaths)
SplitList(input_list, length) ==
  IF Len(input_list) < 2
  THEN [pathList |-> <<>>, numOfNodes |-> 0, numOfPaths |-> 0]
  ELSE LET paths == SelectSeq(TmpList(input_list, length), LAMBDA p : Len(p) # 0)
       IN [pathList |-> paths,
           numOfNodes |-> NumOfNodes(paths),
           numOfPaths |-> NumOfPaths(paths)]

\* ------------------------------------------------------------- the encoders
WayRecord(id, refs) == [id |-> id, refs |-> refs]

\* the XML encoder: write_nodes, write_ways, done, and the file read back
XmlEmission(paths, start_node_id, start_way_id) ==
  LET tc == [nb_nodes |-> 0, nb_ways |-> 0, contours |-> <<paths>>]
      r == WriteNodes(NewOutput(None, None), tc, start_node_id)
      out == Done(WriteWays(r.out, r.ways, start_way_id))
      nodeEntries == SelectSeq(out.file, LAMBDA e : e.kind = "node")
      wayEntries == SelectSeq(out.file, LAMBDA e : e.kind = "way")
  IN [nodes |-> [i \in 1..Len(nodeEntries) |-> nodeEntries[i].id],
      ways |-> [i \in 1..Len(wayEntries) |->
                  WayRecord(wayEntries[i].id, wayEntries[i].refs)],
      newId |-> r.new_start_id]

\* o5m delta coding read back: every value is the previous one plus the delta
RECURSIVE DeltaDecode(_, _)
DeltaDecode(deltas, last) ==
  IF deltas = <<>> THEN <<>>
  ELSE <<last + Head(deltas)>> \o DeltaDecode(Tail(deltas), last + Head(deltas))

\* writeNodesO5m: reset, then idDelta = startNodeId for the first node and 1
\* for the others
O5mNodeIdDeltas(nodes, startNodeId) ==
  [i \in 1..Len(nodes) |-> IF i = 1 THEN startNodeId ELSE 1]

\* makeWayReferenceSection: nodeIdDeltas
MakeWayReferenceSection(startNodeId, length, isCycle, lastNodeId) ==
  <<startNodeId - lastNodeId>> \o [i \in 1..(length - 1) |-> 1]
    \o (IF isCycle THEN <<-(length - 1)>> ELSE <<>>)

\* self.lastNodeId is the last node of the way, closed or not
LastNodeIdAfterOpen(startNodeId, length, isCycle) == startNodeId + length - 1

\* makeWayReferenceSection: self.lastNodeId afterwards
LastNodeIdAfter(startNodeId, length, isCycle) ==
  IF isCycle THEN startNodeId ELSE startNodeId + length - 1

\* Output._write_ways of o5m: the reference sections of the ways in turn,
\* read back
RECURSIVE O5mWayRefs(_, _)
O5mWayRefs(ws, lastNodeId) ==
  IF ws = <<>> THEN <<>>
  ELSE LET w == Head(ws)
           section == MakeWayReferenceSection(w.first_node_id, w.nb_nodes,
                                              w.closed_loop, lastNodeId)
       IN <<DeltaDecode(section, lastNodeId)>>
          \o O5mWayRefs(Tail(ws),
                        LastNodeIdAfter(w.first_node_id, w.nb_nodes, w.closed_loop))

\* the o5m encoder: writeNodes, _write_ways at done, and the file read back
O5mEmission(paths, start_node_id, start_way_id) ==
  LET made == MakeNodesWays(paths, 1, start_node_id)
      refs == O5mWayRefs(made.ways, 0)
      wayIds == DeltaDecode([i \in 1..Len(made.ways) |->
                               IF i = 1 THEN start_way_id ELSE 1], 0)
  IN [nodes |-> DeltaDecode(O5mNodeIdDeltas(made.nodes, start_node_id), 0),
      ways |-> [i \in 1..Len(made.ways) |-> WayRecord(wayIds[i], refs[i])],
      newId |-> made.curId]

\* pbf writeNodes: the node ids and the ways of the contours in turn
RECURSIVE PbfWriteNodes(_, _)
PbfWriteNodes(contour_list, next_node_id) ==
  IF contour_list = <<>>
  THEN [nodes |-> <<>>, ways |-> <<>>, next_node_id |-> next_node_id]
  ELSE LET full == Head(contour_list)
           is_closed_way == full[1] = full[Len(full)]
           contour == IF is_closed_way THEN SubSeq(full, 1, Len(full) - 1) ELSE full
           rest == PbfWriteNodes(Tail(contour_list), next_node_id + Len(contour))
       IN [nodes |-> [i \in 1..Len(contour) |-> next_node_id + i - 1] \o rest.nodes,
           ways |-> <<[first_node_id |-> next_node_id, nb_nodes |-> Len(contour),
                       closed_loop |-> is_closed_way, elevation |-> 1]>> \o rest.ways,
           next_node_id |-> rest.next_node_id]

\* pbf writeWays
PbfWriteWays(ws, startWayId) ==
  [ind \in 1..Len(ws) |->
     WayRecord(startWayId + ind - 1,
               [j \in 1..ws[ind].nb_nodes |-> ws[ind].first_node_id + j - 1]
                 \o (IF ws[ind].closed_loop THEN <<ws[ind].first_node_id>> ELSE <<>>))]

\* the pbf encoder
PbfEmission(paths, start_node_id, start_way_id) ==
  LET r == PbfWriteNodes(paths, start_node_id)
  IN [nodes |-> r.nodes,
      ways |-> PbfWriteWays(r.ways, start_way_id),
      newId |-> r.next_node_id]

\* ------------------------------------------------------------------- trace
InitContour ==
  /\ ProcessorIdle
  /\ LibrariesIdle
  /\ ChopIdle
  /\ IdsIdle
  /\ O5mIdle
  /\ input_path \in RawPaths \cup DupRawPaths
  /\ rdp_epsilon \in {NoEpsilon} \cup (0..MaxEpsilon)
  /\ max_nodes_per_way \in 0..MaxNodesPerWay
  /\ deduped_path = <<>>
  /\ resultPaths = <<>>
  /\ numOfNodes = 0
  /\ numOfPaths = 0
  /\ encoder = "none"
  /\ emitted = NoEmission
  /\ trace_pc = "simplify_path"

\* trace: path = simplify_path(path, self.rdp_epsilon)
TraceSimplifyPath ==
  /\ trace_pc = "simplify_path"
  /\ deduped_path' = SimplifyPath(input_path, rdp_epsilon)
  /\ trace_pc' = "splitList"
  /\ UNCHANGED <<input_path, rdp_epsilon, max_nodes_per_way, resultPaths, numOfNodes,
                 numOfPaths, encoder, emitted, processorVars, chopVars, idVars, o5mVars, libraryVars>>

\* trace: splitPaths, numOfNodesAdd, numOfPathsAdd = self.splitList(path)
TraceSplitList ==
  /\ trace_pc = "splitList"
  /\ ~SplitListRaises(deduped_path, max_nodes_per_way)
  /\ LET r == SplitList(deduped_path, max_nodes_per_way) IN
       /\ resultPaths' = r.pathList
       /\ numOfNodes' = r.numOfNodes
       /\ numOfPaths' = r.numOfPaths
  /\ trace_pc' = "write_nodes"
  /\ UNCHANGED <<input_path, rdp_epsilon, max_nodes_per_way, deduped_path,
                 encoder, emitted, processorVars, chopVars, idVars, o5mVars, libraryVars>>

\* splitList raises ValueError
TraceSplitListValueError ==
  /\ trace_pc = "splitList"
  /\ SplitListRaises(deduped_path, max_nodes_per_way)
  /\ trace_pc' = "ValueError"
  /\ UNCHANGED <<input_path, rdp_epsilon, max_nodes_per_way, deduped_path, resultPaths,
                 numOfNodes, numOfPaths, encoder, emitted, processorVars, chopVars, idVars, o5mVars, libraryVars>>

Emit(enc, emission) ==
  /\ trace_pc = "write_nodes"
  /\ encoder' = enc
  /\ emitted' = emission
  /\ trace_pc' = "done"
  /\ UNCHANGED <<input_path, rdp_epsilon, max_nodes_per_way, deduped_path, resultPaths,
                 numOfNodes, numOfPaths, processorVars, chopVars, idVars, o5mVars, libraryVars>>

\* write_nodes, write_ways and done of each encoder
EmitXml == Emit("xml", XmlEmission(resultPaths, NodeStartId, WayStartId))
EmitO5m == Emit("o5m", O5mEmission(resultPaths, NodeStartId, WayStartId))
EmitPbf == Emit("pbf", PbfEmission(resultPaths, NodeStartId, WayStartId))

NextContour ==
  \/ TraceSimplifyPath
  \/ TraceSplitList
  \/ TraceSplitListValueError
  \/ EmitXml
  \/ EmitO5m
  \/ EmitPbf

SpecContour == InitContour /\ [][NextContour]_vars

\* --------------------------------------------------------- ids past 2^31
Int32Max == [i \in Limbs |-> IF i = 1 THEN LimbBase - 1
                             ELSE IF i = 2 THEN LimbBase \div 2 - 1 ELSE 0]
UInt32Max == [i \in Limbs |-> IF i <= 2 THEN LimbBase - 1 ELSE 0]
UInt64Max == [i \in Limbs |-> IF i <= 4 THEN LimbBase - 1 ELSE 0]

\* node_start_id / way_start_id: the default and values up to MaxBack
\* below the limits of the 32 and 64 bit integers
StartIds ==
  {ToLimbs(NodeStartId)} \cup
  {[m EXCEPT ![1] = m[1] - k] : m \in {Int32Max, UInt32Max, UInt64Max},
                                k \in 0..MaxBack}

\* C unsigned long has 32 bits on ILP32 and LLP64 platforms, 64 on LP64
ULongWidths == {32, 64}

InitIds ==
  /\ ProcessorIdle
  /\ LibrariesIdle
  /\ ChopIdle
  /\ ContourIdle
  /\ O5mIdle
  /\ ulong_bits \in ULongWidths
  /\ \E start \in StartIds : id_value = StoreULong(start, ulong_bits)
  /\ reservations = <<>>
  /\ enc_result = NoResult

\* get_and_inc_counter on a counter of its own
ReserveIds ==
  /\ Len(reservations) < MaxReservations
  /\ \E inc_value \in 1..MaxInc :
       /\ reservations' = Append(reservations,
                                 [previous_value |-> id_value, inc_value |-> inc_value])
       /\ id_value' = StoreULong(LimbAdd(id_value, ToLimbs(inc_value)), ulong_bits)
  /\ UNCHANGED <<ulong_bits, enc_result, processorVars, chopVars, contourVars,
                 o5mVars, libraryVars>>

\* write_nodes called with the reserved start id for the reserved nodes
EncoderWriteNodes ==
  /\ reservations # <<>>
  /\ enc_result = NoResult
  /\ LET r == reservations[Len(reservations)] IN
       enc_result' = [start |-> r.previous_value, nb |-> r.inc_value,
                      next |-> LimbAdd(r.previous_value, ToLimbs(r.inc_value))]
  /\ UNCHANGED <<ulong_bits, id_value, reservations, processorVars, chopVars,
                 contourVars, o5mVars, libraryVars>>

NextIds ==
  \/ ReserveIds
  \/ EncoderWriteNodes

SpecIds == InitIds /\ [][NextIds]_vars

\* ------------------------------------------------------------ StringTable
\* a string is a number; the positive ones have 1 to 250 bytes, the others
\* more than 250
StringLength(string) ==
  IF string > 0 THEN 1 + (string % 250) ELSE 251 - string

maxStringRef == 15000

Literal(string) == [str |-> string]
StringRef(stringRef) == [ref |-> stringRef]

\* self.table.index(string) + 1
TableIndex(tbl, string) ==
  CHOOSE i \in 1..Len(tbl) : tbl[i] = string /\ \A j \in 1..(i - 1) : tbl[j] # string

\* the oldest entry is never dropped
AppendUnbounded(tbl, string) == Append(tbl, string)

\* self.table.append(string), and pop(0) at maxStringRef + 1 entries
AppendBounded(tbl, string) ==
  IF Len(tbl) + 1 = maxStringRef + 1 THEN Tail(Append(tbl, string))
  ELSE Append(tbl, string)

\* stringOrIndex: the table afterwards and the returned bytes
StringOrIndex(tbl, string) ==
  IF StringLength(string) > 250
  THEN [table |-> tbl, out |-> Literal(string)]
  ELSE IF \A i \in 1..Len(tbl) : tbl[i] # string
       THEN [table |-> AppendBounded(tbl, string), out |-> Literal(string)]
       ELSE [table |-> tbl,
             out |-> StringRef(Len(tbl) - (TableIndex(tbl, string) - 1))]

\* a table that holds the strings 1..n, the state after n calls with them
FilledTable(n) == [i \in 1..n |-> i]

InitStrings ==
  /\ ProcessorIdle
  /\ LibrariesIdle
  /\ ChopIdle
  /\ ContourIdle
  /\ IdsIdle
  /\ outf = <<>>
  /\ last_node_id = 0
  /\ write_timestamp = FALSE
  /\ o5m_given = <<>>
  /\ \E n \in {0, 1, 2, maxStringRef - 2, maxStringRef - 1, maxStringRef} :
       string_table = FilledTable(n)
  /\ string_call = NoCall

\* a call of stringOrIndex: with a new string, the oldest or the newest
\* entry, a string of 250 bytes (249) or one of 251 bytes (0)
StringOrIndexCall ==
  /\ string_call.nb < MaxStringCalls
  /\ \E string \in {maxStringRef + j : j \in 1..MaxStringCalls}
                   \cup {string_table[i] :
                           i \in {1, Len(string_table)} \cap DOMAIN string_table}
                   \cup {0, 249} :
       LET r == StringOrIndex(string_table, string) IN
         /\ string_table' = r.table
         /\ string_call' = [string |-> string, result |-> r.out,
                            nb |-> string_call.nb + 1]
  /\ UNCHANGED <<outf, last_node_id, write_timestamp, o5m_given, processorVars,
                 chopVars, contourVars, idVars, libraryVars>>

NextStrings == StringOrIndexCall

SpecStrings == InitStrings /\ [][NextStrings]_vars

\* ------------------------------------------------------- the o5m datasets
ResetDataset == [type |-> "reset"]
HeaderDataset == [type |-> "header"]

\* the reset leaves a string in the table
WriteResetLeavesString == [last_node_id |-> 0, table |-> <<2>>]

\* writeReset, after the byte 0xFF: self.lastNodeId and the string table
WriteReset == [last_node_id |-> 0, table |-> <<>>]

\* makeVersionChunk: the user string goes through the string table
VersionStrings == IF write_timestamp THEN <<1>> ELSE <<>>

\* makeWayData: the ele, contour and contour_ext string pairs of a way
TagStrings(elevation) == <<10 + elevation, 2, 3 + (elevation % 2)>>

\* the strings of one dataset through stringOrIndex, in turn
RECURSIVE StringsOrIndexes(_, _)
StringsOrIndexes(tbl, strings) ==
  IF strings = <<>> THEN [table |-> tbl, outs |-> <<>>]
  ELSE LET one == StringOrIndex(tbl, Head(strings))
           rest == StringsOrIndexes(one.table, Tail(strings))
       IN [table |-> rest.table, outs |-> <<one.out>> \o rest.outs]

\* writeNodesO5m after its reset: writeNode for the k-th of n nodes onwards
RECURSIVE WriteNodeDatasets(_, _, _, _)
WriteNodeDatasets(k, n, startNodeId, tbl) ==
  IF k > n THEN [datasets |-> <<>>, table |-> tbl]
  ELSE LET strs == StringsOrIndexes(tbl, VersionStrings)
           rest == WriteNodeDatasets(k + 1, n, startNodeId, strs.table)
       IN [datasets |-> <<[type |-> "node",
                           idDelta |-> IF k = 1 THEN startNodeId ELSE 1,
                           strings |-> strs.outs]>> \o rest.datasets,
           table |-> rest.table]

\* _write_ways after its reset: writeWay for every way in turn
RECURSIVE WriteWayDatasets(_, _, _, _, _)
WriteWayDatasets(ws, startWayId, first, tbl, lastNodeId) ==
  IF ws = <<>> THEN [datasets |-> <<>>, table |-> tbl, last_node_id |-> lastNodeId]
  ELSE LET w == Head(ws)
           version == StringsOrIndexes(tbl, VersionStrings)
           section == MakeWayReferenceSection(w.first_node_id, w.nb_nodes,
                                              w.closed_loop, lastNodeId)
           tags == StringsOrIndexes(version.table, TagStrings(w.elevation))
           rest == WriteWayDatasets(Tail(ws), startWayId, FALSE, tags.table,
                     LastNodeIdAfter(w.first_node_id, w.nb_nodes, w.closed_loop))
       IN [datasets |-> <<[type |-> "way",
                           idDelta |-> IF first THEN startWayId ELSE 1,
                           refs |-> section,
                           strings |-> version.outs \o tags.outs]>> \o rest.datasets,
           table |-> rest.table,
           last_node_id |-> rest.last_node_id]

\* the ways write_nodes can return
O5mWays ==
  [first_node_id : 1..MaxStartId, nb_nodes : 1..2, closed_loop : BOOLEAN,
   elevation : 0..MaxElevation]

\* Output.__init__: writeHeader
InitO5m ==
  /\ ProcessorIdle
  /\ LibrariesIdle
  /\ ChopIdle
  /\ ContourIdle
  /\ IdsIdle
  /\ write_timestamp \in BOOLEAN
  /\ outf = <<ResetDataset, HeaderDataset>>
  /\ last_node_id = WriteReset.last_node_id
  /\ string_table = WriteReset.table
  /\ o5m_given = <<>>
  /\ string_call = NoCall

\* writeNodesO5m(nodes, startNodeId) with at least one node
WriteNodesO5m ==
  /\ outf # <<>>
  /\ Len(o5m_given) < MaxO5mBlocks
  /\ \E n \in 1..MaxO5mNodes, startNodeId \in 1..MaxStartId :
       LET r == WriteNodeDatasets(1, n, startNodeId, WriteReset.table) IN
         /\ outf' = outf \o <<ResetDataset>> \o r.datasets
         /\ last_node_id' = WriteReset.last_node_id
         /\ string_table' = r.table
         /\ o5m_given' = Append(o5m_given,
                                [type |-> "node", n |-> n, start |-> startNodeId])
  /\ UNCHANGED <<write_timestamp, string_call, processorVars, chopVars, contourVars,
                 idVars, libraryVars>>

\* _write_ways(ways, startWayId) with at least one way
WriteWaysO5m ==
  /\ outf # <<>>
  /\ Len(o5m_given) < MaxO5mBlocks
  /\ \E ws \in UNION {[1..n -> O5mWays] : n \in 1..MaxO5mWays},
        startWayId \in {MaxStartId} :
       LET r == WriteWayDatasets(ws, startWayId, TRUE, WriteReset.table,
                                 WriteReset.last_node_id) IN
         /\ outf' = outf \o <<ResetDataset>> \o r.datasets
         /\ last_node_id' = r.last_node_id
         /\ string_table' = r.table
         /\ o5m_given' = Append(o5m_given,
                                [type |-> "way", ways |-> ws, start |-> startWayId])
  /\ UNCHANGED <<write_timestamp, string_call, processorVars, chopVars, contourVars,
                 idVars, libraryVars>>

NextO5m ==
  \/ WriteNodesO5m
  \/ WriteWaysO5m

SpecO5m == InitO5m /\ [][NextO5m]_vars

\* --------------------------------------------------------- Source.get_file
Areas == 1..NbAreas

\* the cached file of an area: none, one of the wrong size, or a good one
CacheStates == {"missing", "corrupted", "valid"}

\* check_cached_file raises OSError (FileNotFoundError is one) unless the
\* file is there with the right size
CheckCachedFile(area) == IF cache[area] = "valid" THEN "passed" ELSE "OSError"

NoGetFile == [checks |-> <<>>, downloads |-> 0, result |-> "none"]

\* what a download does: writes a good file, writes a bad one, raises
\* FileNotFoundError or another OSError, or raises an exception that is no
\* OSError (ValueError, zipfile.BadZipFile, httpx.HTTPError)
DownloadOutcomes == {"valid", "corrupted", "OSError", "Exception"}

InitSource ==
  /\ ProcessorIdle
  /\ ChopIdle
  /\ ContourIdle
  /\ IdsIdle
  /\ O5mIdle
  /\ VarintIdle
  /\ cache \in [Areas -> CacheStates]
  /\ get_file_pc = "idle"
  /\ get_file_area = None
  /\ get_file_calls = [a \in Areas |-> NoGetFile]

Checked(area, outcome) ==
  [get_file_calls EXCEPT ![area].checks = Append(@, outcome)]

GetFileReturns(history, area, result) == [history EXCEPT ![area].result = result]

\* get_file(area, resolution): the first check_cached_file
GetFile ==
  /\ get_file_pc = "idle"
  /\ \E area \in Areas :
       /\ get_file_calls[area].result = "none"
       /\ get_file_area' = area
       /\ IF CheckCachedFile(area) = "passed"
          THEN /\ get_file_calls' =
                    GetFileReturns(Checked(area, "passed"), area, "file_name")
               /\ get_file_pc' = "idle"
          ELSE /\ get_file_calls' = Checked(area, "OSError")
               /\ get_file_pc' = "mkdir"
  /\ UNCHANGED <<cache, processorVars, chopVars, contourVars, idVars, o5mVars,
                 varintVars>>

\* except OSError: mkdir of the cache directory, which can fail, show_banner
GetFileMkdir ==
  /\ get_file_pc = "mkdir"
  /\ \/ get_file_pc' = "download" /\ UNCHANGED get_file_calls
     \/ /\ get_file_pc' = "idle"
        /\ get_file_calls' = GetFileReturns(get_file_calls, get_file_area, "None")
  /\ UNCHANGED <<cache, get_file_area, processorVars, chopVars, contourVars, idVars,
                 o5mVars, varintVars>>

\* download_missing_file, and check_cached_file again when it returns
GetFileDownload ==
  /\ get_file_pc = "download"
  /\ \E outcome \in DownloadOutcomes :
       LET area == get_file_area
           called == [get_file_calls EXCEPT ![area].downloads = @ + 1]
       IN CASE outcome = "OSError" ->
                 /\ get_file_calls' = GetFileReturns(called, area, "None")
                 /\ UNCHANGED cache
            [] outcome = "Exception" ->
                 /\ get_file_calls' = GetFileReturns(called, area, "raised")
                 /\ UNCHANGED cache
            [] OTHER ->
                 /\ cache' = [cache EXCEPT ![area] = outcome]
                 /\ get_file_calls' =
                      GetFileReturns([called EXCEPT ![area].checks =
                                  Append(@, IF outcome = "valid" THEN "passed"
                                            ELSE "OSError")],
                               area,
                               IF outcome = "valid" THEN "file_name" ELSE "None")
  /\ get_file_pc' = "idle"
  /\ UNCHANGED <<get_file_area, processorVars, chopVars, contourVars, idVars,
                 o5mVars, varintVars>>

NextSource ==
  \/ GetFile
  \/ GetFileMkdir
  \/ GetFileDownload

SpecSource == InitSource /\ [][NextSource]_vars


\* ------------------------------------------------------------------ varint
\* An integer of any size is a sign and the binary digits of its absolute
\* value, lowest digit first and no zero as the highest digit; zero is the
\* empty sequence.
MaxVarintBits == 64
MaxSmall == 40

RECURSIVE BitsOf(_)
\* the binary digits of a natural number
BitsOf(v) == IF v = 0 THEN <<>> ELSE <<v % 2>> \o BitsOf(v \div 2)

\* 2^k
TwoPower(k) == [i \in 1..(k + 1) |-> IF i = k + 1 THEN 1 ELSE 0]

\* 2^k - 1
AllOnes(k) == [i \in 1..k |-> 1]

\* 2^k + 1, k > 0
TwoPowerPlusOne(k) == [i \in 1..(k + 1) |-> IF i \in {1, k + 1} THEN 1 ELSE 0]

\* the absolute values that are written
VarintMagnitudes ==
  {BitsOf(v) : v \in 0..MaxSmall}
    \cup {TwoPower(k) : k \in 0..(MaxVarintBits - 1)}
    \cup {AllOnes(k) : k \in 1..MaxVarintBits}
    \cup {TwoPowerPlusOne(k) : k \in 1..(MaxVarintBits - 1)}

\* the integers that are written
VarintInputs ==
  {[neg |-> FALSE, mag |-> m] : m \in VarintMagnitudes}
    \cup {[neg |-> TRUE, mag |-> m] : m \in VarintMagnitudes \ {<<>>}}

RECURSIVE LowBits(_, _)
\* the value of n & (2^width - 1), as a number below 2^width
LowBits(m, width) ==
  IF width = 0 \/ m = <<>> THEN 0
  ELSE Head(m) + 2 * LowBits(Tail(m), width - 1)

\* n & 127
And127(m) == LowBits(m, 7)

\* n >> 7
Shr7(m) == IF Len(m) <= 7 THEN <<>> ELSE SubSeq(m, 8, Len(m))

\* n << 1
Shl1(m) == IF m = <<>> THEN <<>> ELSE <<0>> \o m

\* n | 1
Or1(m) == IF m = <<>> THEN <<1>> ELSE <<1>> \o Tail(m)

\* b | 128, b a number below 256
Or128(v) == IF v >= 128 THEN v ELSE v + 128

RECURSIVE Decreased(_)
\* n - 1, n > 0
Decreased(m) ==
  IF Head(m) = 1
    THEN IF Tail(m) = <<>> THEN <<>> ELSE <<0>> \o Tail(m)
    ELSE <<1>> \o Decreased(Tail(m))

RECURSIVE Int2StrLoop(_, _, _)
\* int2str: the loop "while n", then the last byte
Int2StrLoop(v, m, bytes) ==
  IF m # <<>>
    THEN Int2StrLoop(And127(m), Shr7(m), Append(bytes, Or128(v)))
    ELSE Append(bytes, v)

\* int2str(n), n >= 0
Int2Str(m) == Int2StrLoop(And127(m), Shr7(m), <<>>)

\* sint2str without the decrease of abs(n)
Sint2StrNoDecrease(x) ==
  IF ~x.neg
    THEN Int2Str(Shl1(x.mag))
    ELSE Int2Str(Or1(Shl1(x.mag)))

\* sint2str(n)
Sint2Str(x) ==
  IF ~x.neg
    THEN Int2Str(Shl1(x.mag))
    ELSE Int2Str(Or1(Shl1(Decreased(x.mag))))

InitVarint ==
  /\ ProcessorIdle
  /\ ChopIdle
  /\ ContourIdle
  /\ IdsIdle
  /\ O5mIdle
  /\ SourceIdle
  /\ varint_n \in VarintInputs
  /\ varint_fun = "none"
  /\ varint_bytes = <<>>

\* int2str(n) is called with an unsigned number
Int2StrCall ==
  /\ varint_fun = "none"
  /\ ~varint_n.neg
  /\ varint_fun' = "int2str"
  /\ varint_bytes' = Int2Str(varint_n.mag)
  /\ UNCHANGED <<varint_n, processorVars, chopVars, contourVars, idVars,
                 o5mVars, sourceVars>>

\* sint2str(n) is called with a signed number
Sint2StrCall ==
  /\ varint_fun = "none"
  /\ varint_fun' = "sint2str"
  /\ varint_bytes' = Sint2Str(varint_n)
  /\ UNCHANGED <<varint_n, processorVars, chopVars, contourVars, idVars,
                 o5mVars, sourceVars>>

NextVarint ==
  \/ Int2StrCall
  \/ Sint2StrCall

SpecVarint == InitVarint /\ [][NextVarint]_vars


\* -------------------------------------------------------------- properties
RunTiles == {TileOf(f, k) : f \in Files, k \in 1..NbTilesOfFile}
Disjoint(s1, n1, s2, n2) == s1 + n1 <= s2 \/ s2 + n2 <= s1
InRange(x, s, n) == s <= x /\ x < s + n
HasNodeRange(t) == tiles[t].node_start # None
HasWayRange(t) == tiles[t].way_start # None
NodeIdsOf(o) ==
  {outputs[o].file[i].id : i \in {j \in 1..Len(outputs[o].file) :
                                    outputs[o].file[j].kind = "node"}}
WayIndexes(o) ==
  {i \in 1..Len(outputs[o].file) : outputs[o].file[i].kind = "way"}
Outs == 1..Len(outputs)
ProgramEnded == pc[MainPid] \in {"exited", "cli_exit"}

\* C1: any two sub-tiles that reserve ids get disjoint node-id ranges
\* [node_start, node_start+nb_nodes) and disjoint way-id ranges
\* [way_start, way_start+nb_ways), whatever the jobs and the interleaving.
C1_DisjointIdRanges ==
  \A a \in Tiles : \A b \in Tiles \ {a} :
    /\ (HasNodeRange(a) /\ HasNodeRange(b)) =>
         Disjoint(tiles[a].node_start, tiles[a].nb_nodes,
                  tiles[b].node_start, tiles[b].nb_nodes)
    /\ (HasWayRange(a) /\ HasWayRange(b)) =>
         Disjoint(tiles[a].way_start, tiles[a].nb_ways,
                  tiles[b].way_start, tiles[b].nb_ways)

\* two sub-tiles handled by two different processes at the same time have
\* both reserved their node and way ids
C1_Witness ==
  \E a \in Tiles : \E b \in Tiles \ {a} :
    /\ HasWayRange(a) /\ HasWayRange(b)
    /\ tiles[a].pid # tiles[b].pid
    /\ tiles[a].status = "reserved" /\ tiles[b].status = "reserved"
    /\ tiles[a].nb_nodes > 0 /\ tiles[b].nb_nodes > 0

RECURSIVE SumDeltas(_)
SumDeltas(S) ==
  IF S = {} THEN 0
  ELSE LET k == CHOOSE x \in S : TRUE IN k.delta + SumDeltas(S \ {k})

CallsOn(c) == {k \in calls : k.counter = c}

\* C2: get_and_inc_counter is atomic: every call returns the value the
\* counter had immediately before its own increment, the counter equals its
\* initial value plus the sum of the deltas of the calls made, and no two
\* calls with a positive delta return the same value.
C2_AtomicFetchAndAdd ==
  /\ \A k \in calls : k.ret = k.before
  /\ \A c \in Counters : next_id[c] = StartId(c) + SumDeltas(CallsOn(c))
  /\ \A a \in calls : \A b \in calls \ {a} :
       (a.counter = b.counter /\ a.delta > 0 /\ b.delta > 0) => a.ret # b.ret

\* a caller waits for the lock of a counter that another process, which has
\* already incremented it, still holds, after an earlier call was completed
C2_Witness ==
  \E p \in Procs : \E q \in Procs \ {p} :
    /\ pc[p] = "gic_lock" /\ lock[counter[p]] = q
    /\ counter[q] = counter[p] /\ pc[q] = "gic_unlock"
    /\ Cardinality(calls) >= 2

\* C3: every node id referenced by a way of an output file is the id of a
\* node written to that same file, and lies inside the node-id range that
\* was reserved for the sub-tile the way belongs to.
C3_WayRefsResolve ==
  \A o \in Outs : \A i \in WayIndexes(o) :
    LET w == outputs[o].file[i] IN
    \E t \in Tiles :
      /\ tiles[t].out = o
      /\ HasWayRange(t) /\ InRange(w.id, tiles[t].way_start, tiles[t].nb_ways)
      /\ \A j \in 1..Len(w.refs) :
           /\ w.refs[j] \in NodeIdsOf(o)
           /\ InRange(w.refs[j], tiles[t].node_start, tiles[t].nb_nodes)

\* the common file of a single output run holds the ways of two sub-tiles
C3_Witness ==
  /\ single_output
  /\ \E o \in Outs :
       /\ outputs[o].done = 1
       /\ \E a \in Tiles : \E b \in Tiles \ {a} :
            /\ tiles[a].out = o /\ tiles[b].out = o
            /\ \E i \in WayIndexes(o) :
                 InRange(outputs[o].file[i].id, tiles[a].way_start, tiles[a].nb_ways)
            /\ \E i \in WayIndexes(o) :
                 /\ InRange(outputs[o].file[i].id, tiles[b].way_start, tiles[b].nb_ways)
                 /\ Len(outputs[o].file[i].refs) = 4

\* C4: write_ways only buffers: an encoder on which done() was not called
\* has written no way, and in every file each node a way references is
\* written before that way.
C4_WaysOnlyAtDone ==
  \A o \in Outs :
    /\ outputs[o].done = 0 => WayIndexes(o) = {}
    /\ \A i \in WayIndexes(o) : \A j \in 1..Len(outputs[o].file[i].refs) :
         \E k \in 1..(i - 1) :
           /\ outputs[o].file[k].kind = "node"
           /\ outputs[o].file[k].id = outputs[o].file[i].refs[j]

\* write_ways was called on an encoder that is not finalized yet
C4_Witness ==
  \E o \in Outs :
    /\ outputs[o].done = 0
    /\ outputs[o].ways_pending_write # <<>>
    /\ Len(outputs[o].ways_pending_write[1][1]) = 2

C6_MultiOutput ==
  ~single_output =>
    /\ \A a \in Tiles : \A b \in Tiles \ {a} :
         tiles[a].out # None => tiles[a].out # tiles[b].out
    /\ \A o \in Outs :
         /\ tiles[outputs[o].tile].out = o
         /\ outputs[o].pid = tiles[outputs[o].tile].pid
         /\ outputs[o].done <= 1
         /\ outputs[o].done = 1 => outputs[o].closer = outputs[o].pid
    /\ \A t \in Tiles :
         /\ tiles[t].status \in {"reserved", "written"} => tiles[t].nb_nodes > 0
         /\ tiles[t].status = "written" =>
              /\ tiles[t].out # None
              /\ outputs[tiles[t].out].done = 1

\* two sub-tiles written by two different processes, each in its own file
C6_Witness ==
  /\ ~single_output
  /\ \E a \in Tiles : \E b \in Tiles \ {a} :
       /\ tiles[a].status = "written" /\ tiles[b].status = "written"
       /\ tiles[a].pid # tiles[b].pid
       /\ outputs[tiles[a].out].done = 1 /\ outputs[tiles[b].out].done = 1

Recorded(w) ==
  \E i \in 1..Len(children_errors[MainPid]) :
    children_errors[MainPid][i] = <<w, exitcode[w]>>

\* C7: when the run is over, every worker process that ended because of an
\* exception has its non-zero exit code recorded by process_files, the
\* errors were reported, and the remaining tasks were run.
C7_FailedWorkersRecorded ==
  (pc[MainPid] = "exited" /\ exit_code = 0) =>
    \A w \in Workers :
      (pc[w] = "ended" /\ exitcode[w] # 0) => (Recorded(w) /\ errors_reported)

SomeWorkFailed == \E p \in Procs : raised[p]

\* C8: the program ends with a non-zero exit code if and only if at least
\* one worker failed or CLI validation failed.
C8_ExitCodeIffFailure ==
  ProgramEnded =>
    (exit_code # 0 <=> (SomeWorkFailed \/ pc[MainPid] = "cli_exit"))

\* C9: a failure while processing one sub-tile aborts that sub-tile only:
\* when the program is over every sub-tile of the run has been processed and
\* the output of every sub-tile that succeeded is finalized.
C9_FailureAbortsOneTile ==
  pc[MainPid] = "exited" =>
    /\ \A t \in RunTiles : tiles[t].runs >= 1
    /\ \A t \in RunTiles :
         tiles[t].status = "written" => outputs[tiles[t].out].done >= 1

\* C10: with one job, or in single output mode whatever the job count, no
\* worker process is ever started and every sub-tile is processed in the
\* calling process.
C10_NoWorkerWhenSequential ==
  (nb_jobs = 1 \/ single_output) =>
    /\ \A w \in Workers : pc[w] = "unborn"
    /\ \A t \in Tiles : tiles[t].runs > 0 => tiles[t].pid = MainPid

\* a single output run of two jobs has processed every sub-tile
C10_Witness ==
  /\ single_output /\ nb_jobs > 1
  /\ \A t \in RunTiles : tiles[t].status = "written" /\ tiles[t].pid = MainPid
  /\ pc[MainPid] = "exited"

AliveWorkers == {w \in Workers : pc[w] \notin {"unborn", "ended"}}

\* C11: in a run of N jobs the number of worker processes that have been
\* started and have not yet ended never exceeds N, whoever started them.
C11_AtMostNWorkers == Cardinality(AliveWorkers) <= nb_jobs

WayIdsOf(o) == {outputs[o].file[i].id : i \in WayIndexes(o)}
NodeOccurrences(id) ==
  Cardinality({<<o, i>> \in Outs \X (1..(4 * NbTiles)) :
                 /\ i <= Len(outputs[o].file)
                 /\ outputs[o].file[i].kind = "node"
                 /\ outputs[o].file[i].id = id})
WayOccurrences(id) ==
  Cardinality({<<o, i>> \in Outs \X (1..(8 * NbTiles)) :
                 /\ i <= Len(outputs[o].file)
                 /\ outputs[o].file[i].kind = "way"
                 /\ outputs[o].file[i].id = id})

CallsFor(t) == {k \in calls : k.tile = t}

\* C18: processing a sub-tile whose contours hold no node changes neither
\* id counter, allocates no encoder and writes to no file: the step returns
\* from process_tile_internal with the counters, the encoders and the
\* reservations as they were, and the sub-tile never owns ids or a file.
C18_EmptyTileNoEffect ==
  /\ [](\A t \in Tiles :
          tiles[t].status = "skipped" =>
            /\ tiles[t].out = None
            /\ ~HasNodeRange(t) /\ ~HasWayRange(t)
            /\ CallsFor(t) = {})
  /\ [][\A p \in Procs :
          (/\ pc[p] = "process_tile"
           /\ tiles'[cur_tile[p]].runs = tiles[cur_tile[p]].runs + 1
           /\ tiles'[cur_tile[p]].nb_nodes = 0
           /\ tiles'[cur_tile[p]].status \notin {"discarded", "failed"})
          => /\ tiles'[cur_tile[p]].status = "skipped"
             /\ pc'[p] = (IF IsTileWorker(p) THEN "child_finally" ELSE "tiles_loop")
             /\ next_id' = next_id /\ lock' = lock
             /\ outputs' = outputs /\ calls' = calls
             /\ common_osm_output' = common_osm_output]_vars

\* a sub-tile was skipped after another one had reserved ids and got a file
C18_Witness ==
  \E a \in Tiles : \E b \in Tiles \ {a} :
    /\ tiles[a].status = "skipped"
    /\ tiles[b].status = "written" /\ tiles[b].out # None
    /\ next_id["node"] > NodeStartId

\* C19: a sub-tile discarded for the ValueError of get_contours is
\* discarded cleanly: the id counters and the encoders are as they were, the
\* sub-tile owns neither ids nor a file, and the process goes on with what
\* follows the sub-tile, without any exception propagating.
C19_DiscardedCleanly ==
  /\ [](\A t \in Tiles :
          tiles[t].status = "discarded" =>
            /\ tiles[t].out = None
            /\ ~HasNodeRange(t) /\ ~HasWayRange(t)
            /\ CallsFor(t) = {})
  /\ [][\A p \in Procs :
          (/\ pc[p] = "process_tile"
           /\ tiles'[cur_tile[p]].status = "discarded")
          => /\ pc'[p] = (IF IsTileWorker(p) THEN "child_finally" ELSE "tiles_loop")
             /\ raised'[p] = raised[p]
             /\ next_id' = next_id /\ lock' = lock
             /\ outputs' = outputs /\ calls' = calls
             /\ common_osm_output' = common_osm_output]_vars
  /\ [](\A t \in Tiles :
          (/\ tiles[t].status = "discarded" /\ tiles[t].pid = MainPid
           /\ pc[MainPid] = "exited" /\ exit_code = 0)
          => \A u \in RunTiles : tiles[u].runs >= 1)

\* the main process discarded the first sub-tile and wrote the second one
C19_Witness ==
  /\ tiles[1].status = "discarded" /\ tiles[1].pid = MainPid
  /\ tiles[2].status = "written" /\ tiles[2].pid = MainPid
  /\ pc[MainPid] = "exited"

\* C13: for any finite grid and any budget B > 0 chopping terminates, and
\* every emitted piece has a node estimate of at most B or is a single row.
C13_ChopTerminates ==
  maxNodes > 0 =>
    /\ chop_pc # "RecursionError"
    /\ \A i \in 1..Len(hgt_tiles) :
         EstimNumOfNodes(hgt_tiles[i]) <= maxNodes \/ Len(hgt_tiles[i]) = 1

IdsFrom(first, n) == [i \in 1..n |-> first + i - 1]

\* C14: the nb_nodes and nb_ways computed before the reservation are what
\* the encoder emits: the node ids written are start_node_id ..
\* start_node_id + nb_nodes - 1, the id returned is start_node_id + nb_nodes,
\* and nb_ways ways are returned and written.
C14_CountsMatchEmission ==
  trace_pc = "done" =>
    /\ emitted.nodes = IdsFrom(NodeStartId, numOfNodes)
    /\ emitted.newId = NodeStartId + numOfNodes
    /\ Len(emitted.ways) = numOfPaths
    /\ \A i \in 1..Len(emitted.ways) : emitted.ways[i].id = WayStartId + i - 1

\* the o5m encoder has written a path that was simplified and split in two
C14_Witness ==
  /\ trace_pc = "done" /\ encoder = "o5m"
  /\ Len(deduped_path) < Len(input_path)
  /\ numOfPaths = 2 /\ numOfNodes = 4

NoRepeats(refs) ==
  \A i \in 1..Len(refs) : \A j \in 1..Len(refs) : i # j => refs[i] # refs[j]

\* C15: every emitted way is either open with a node-reference list that has
\* no repeats, or closed with equal first and last references and a
\* reference list of length at least 4.
C15_WayShapes ==
  trace_pc = "done" =>
    \A i \in 1..Len(emitted.ways) :
      LET refs == emitted.ways[i].refs IN
        \/ refs[1] # refs[Len(refs)] /\ NoRepeats(refs)
        \/ refs[1] = refs[Len(refs)] /\ Len(refs) >= 4

\* C16: for a closed contour of N distinct points, its first point repeated
\* as last point, every encoder writes N nodes and gives the way the
\* references first, first + 1, ..., first + N - 1, first.
C16_ClosedContour ==
  (/\ trace_pc = "done"
   /\ Len(resultPaths) = 1
   /\ IsClosed(resultPaths[1])
   /\ DistinctPoints(SubSeq(resultPaths[1], 1, Len(resultPaths[1]) - 1)))
  => LET N == Len(resultPaths[1]) - 1 IN
       /\ emitted.nodes = IdsFrom(NodeStartId, N)
       /\ emitted.newId = NodeStartId + N
       /\ Len(emitted.ways) = 1
       /\ emitted.ways[1].refs = IdsFrom(NodeStartId, N) \o <<NodeStartId>>

\* the pbf encoder has written an unsimplified closed contour of 4 points
C16_Witness ==
  /\ trace_pc = "done" /\ encoder = "pbf"
  /\ Len(resultPaths) = 1 /\ resultPaths[1] = input_path
  /\ IsClosed(input_path) /\ Len(input_path) = 5
  /\ Len(emitted.nodes) = 4

SplitDone == trace_pc \in {"write_nodes", "done", "ValueError"}

\* the chunks of a polyline: sizes, shared end points, cover
ChunksOf(l, M, chunks) ==
  /\ chunks # <<>>
  /\ \A k \in 1..Len(chunks) : Len(chunks[k]) >= 2 /\ Len(chunks[k]) <= M
  /\ \A k \in 2..Len(chunks) : chunks[k][1] = chunks[k - 1][Len(chunks[k - 1])]
  /\ \E cut \in [1..(Len(chunks) + 1) -> 1..Len(l)] :
       /\ cut[1] = 1 /\ cut[Len(chunks) + 1] = Len(l)
       /\ \A k \in 1..Len(chunks) :
            cut[k] < cut[k + 1] /\ chunks[k] = SubSeq(l, cut[k], cut[k + 1])

\* C17: for any limit M >= 1 and any polyline of L > M points the splitter
\* emits chunks of 2 to M points, each starting at the last point of the
\* previous one, that cover the points 0 to L - 1 in order; 5 points with
\* M = 3 give [n0, n1, n2] and [n2, n3, n4].
C17_SplitChunks ==
  (SplitDone /\ max_nodes_per_way >= 1 /\ Len(deduped_path) > max_nodes_per_way)
  => /\ trace_pc # "ValueError"
     /\ ChunksOf(deduped_path, max_nodes_per_way, resultPaths)
     /\ (Len(deduped_path) = 5 /\ max_nodes_per_way = 3) =>
          resultPaths = <<SubSeq(deduped_path, 1, 3), SubSeq(deduped_path, 3, 5)>>

\* C17 for limits of 2 and more: for any limit M >= 2 and any polyline of
\* L > M points the splitter emits chunks of 2 to M points, each starting at
\* the last point of the previous one, that cover the points 0 to L - 1 in
\* order; 5 points with M = 3 give [n0, n1, n2] and [n2, n3, n4].
C17_SplitChunksFromTwo ==
  (SplitDone /\ max_nodes_per_way >= 2 /\ Len(deduped_path) > max_nodes_per_way)
  => /\ trace_pc # "ValueError"
     /\ ChunksOf(deduped_path, max_nodes_per_way, resultPaths)
     /\ (Len(deduped_path) = 5 /\ max_nodes_per_way = 3) =>
          resultPaths = <<SubSeq(deduped_path, 1, 3), SubSeq(deduped_path, 3, 5)>>

\* 5 points were split with a limit of 3 and written
C17_Witness ==
  /\ trace_pc = "done"
  /\ Len(deduped_path) = 5 /\ max_nodes_per_way = 3
  /\ Len(resultPaths) = 2

Returned(i) == reservations[i].previous_value

\* C20: the ids handed out by the allocator are strictly increasing and are
\* never truncated to 32 bits: a reservation of 1 at 2147483647 returns
\* 2147483647 and the next one 2147483648; an encoder given the start id
\* 2147483647 for 8 nodes returns 2147483655.
C20_IdsIncreaseUntruncated ==
  /\ \A i \in 1..(Len(reservations) - 1) :
       /\ LimbLess(Returned(i), Returned(i + 1))
       /\ Returned(i + 1) = LimbAdd(Returned(i), ToLimbs(reservations[i].inc_value))
  /\ (Len(reservations) = 2 /\ Returned(1) = Int32Max
        /\ reservations[1].inc_value = 1)
       => Returned(2) = LimbAdd(Int32Max, ToLimbs(1))
  /\ (enc_result # NoResult /\ enc_result.start = Int32Max /\ enc_result.nb = 8)
       => enc_result.next = [Int32Max EXCEPT ![1] = 7, ![2] = LimbBase \div 2]

\* the ids below the width of the platform's unsigned long: increasing, and
\* the two overflow tests pass
IdsIncreaseBelowWidth ==
  /\ \A i \in 1..(Len(reservations) - 1) :
       LimbLess(LimbAdd(Returned(i), ToLimbs(reservations[i].inc_value)),
                IF ulong_bits = 32 THEN LimbAdd(UInt32Max, ToLimbs(1))
                                   ELSE LimbAdd(UInt64Max, ToLimbs(1)))
       => LimbLess(Returned(i), Returned(i + 1))
  /\ (Len(reservations) = 2 /\ Returned(1) = Int32Max
        /\ reservations[1].inc_value = 1)
       => Returned(2) = [Int32Max EXCEPT ![1] = 0, ![2] = LimbBase \div 2]
  /\ (enc_result # NoResult /\ enc_result.start = Int32Max /\ enc_result.nb = 8)
       => enc_result.next = [Int32Max EXCEPT ![1] = 7, ![2] = LimbBase \div 2]

\* C28: when process_files returns, every worker process that was started
\* has ended and has been joined: the final join_children() leaves the list
\* of active children empty.
C28_AllJoinedOnReturn ==
  pc[MainPid] \in {"finish", "returned"} =>
    /\ active_children[MainPid] = <<>>
    /\ \A w \in Workers : pc[w] \in {"unborn", "ended"}

\* the workers whose function is running or about to run
HoldingSlot == {w \in Workers : pc[w] \notin {"unborn", "child_exit", "ended"}}

\* C29: each worker slot taken from the semaphore is given back exactly
\* once, and only after the worker's function has finished, normally or
\* with an exception; once all workers have ended, all N slots are free.
C29_SlotsGivenBackOnce ==
  /\ available_children + Cardinality(HoldingSlot) = nb_jobs
  /\ AliveWorkers = {} => available_children = nb_jobs

\* two workers have ended, one of them with an exception, none is left
C29_Witness ==
  /\ AliveWorkers = {}
  /\ \E v, w \in Workers :
       /\ pc[v] = "ended" /\ pc[w] = "ended"
       /\ exitcode[v] = 1 /\ exitcode[w] = 0
  /\ available_children = nb_jobs

\* C30: every sub-tile of every input file is processed exactly once per
\* run, in a new worker or in the current process: never dropped, never
\* processed twice.
C30_EveryTileOnce ==
  /\ \A t \in RunTiles : tiles[t].runs <= 1
  /\ pc[MainPid] = "exited" => \A t \in RunTiles : tiles[t].runs = 1

\* the same in the runs where no process has raised
EveryTileOnceUnlessRaised ==
  /\ \A t \in RunTiles : tiles[t].runs <= 1
  /\ (pc[MainPid] = "exited" /\ \A p \in Procs : ~raised[p])
       => \A t \in RunTiles : tiles[t].runs = 1

NoEqualNeighbours(path) ==
  \A i \in 1..(Len(path) - 1) : path[i] # path[i + 1]

\* C26: the path simplifier removes consecutive identical points from every
\* polyline, for every rdp_epsilon setting, so no path handed to the way
\* splitter contains two equal adjacent points.
C26_DupesRemoved ==
  trace_pc \in {"splitList", "write_nodes", "done", "ValueError"} =>
    NoEqualNeighbours(deduped_path)

\* the rows first..last of the file, row 0 at the file's maximum latitude
FileRows(first, last) == SubSeq(zData, first + 1, last + 1)
RowOfLat(lat) == FileBbox(zData).max_lat - lat

\* C21: chopping a grid of R rows yields an upper piece with the rows
\* 0..R/2 and a lower piece with the rows R/2..R-1 (R/2 rounded down):
\* together they hold every row, they share exactly row R/2, and their
\* bounding boxes meet at latitude max_lat - (R/2) * lat_inc.
C21_ChopsShareOneRow ==
  [][Len(chop_calls') = Len(chop_calls) + 1 =>
       LET unchopped == Head(chop_calls)
           lower == chop_calls'[1]
           upper == chop_calls'[2]
           R == Len(unchopped.data)
           first == RowOfLat(unchopped.bbox.max_lat)
       IN /\ Len(unchopped.data) = unchopped.bbox.max_lat - unchopped.bbox.min_lat + 1
          /\ unchopped.data = FileRows(first, first + R - 1)
          /\ upper.data = FileRows(first, first + R \div 2)
          /\ lower.data = FileRows(first + R \div 2, first + R - 1)
          /\ upper.bbox.max_lat = unchopped.bbox.max_lat
          /\ upper.bbox.min_lat = unchopped.bbox.max_lat - R \div 2
          /\ lower.bbox.max_lat = unchopped.bbox.max_lat - R \div 2
          /\ lower.bbox.min_lat = unchopped.bbox.min_lat
          /\ upper.bbox.min_lon = lower.bbox.min_lon
          /\ upper.bbox.max_lon = lower.bbox.max_lon]_vars

\* a file of 3 rows has been chopped into the rows 0..1 and 1..2
C21_Witness ==
  /\ Len(zData) = MaxRows
  /\ Len(chop_calls) = 2
  /\ chop_calls[1].depth = 1 /\ chop_calls[2].depth = 1
  /\ Len(chop_calls[1].data) = 2 /\ Len(chop_calls[2].data) = 2

InTable(tbl, string) == \E i \in 1..Len(tbl) : tbl[i] = string

\* C24: over any sequence of strings given to the string table: the table
\* never holds more than 15,000 entries, the oldest being dropped when a new
\* one pushes it past 15,000; a string longer than 250 bytes is always
\* written in full and never stored; a string already in the table is
\* written as its back-distance, 1 meaning the most recently added entry.
C24_StringTable ==
  /\ [](/\ Len(string_table) <= 15000
        /\ \A i \in 1..Len(string_table) : StringLength(string_table[i]) <= 250)
  /\ [][LET string == string_call'.string
            result == string_call'.result
        IN IF StringLength(string) > 250
           THEN result = Literal(string) /\ string_table' = string_table
           ELSE IF InTable(string_table, string)
           THEN /\ DOMAIN result = {"ref"}
                /\ result.ref \in 1..Len(string_table)
                /\ string_table[Len(string_table) - result.ref + 1] = string
                /\ string_table' = string_table
           ELSE /\ result = Literal(string)
                /\ string_table' =
                     IF Len(string_table) = 15000
                     THEN Tail(string_table) \o <<string>>
                     ELSE string_table \o <<string>>]_vars

\* the table is full, its first entries have been dropped and the last call
\* was answered with a back-distance
C24_Witness ==
  /\ Len(string_table) = 15000
  /\ string_table[1] > 1
  /\ string_call.nb = MaxStringCalls
  /\ DOMAIN string_call.result = {"ref"}

\* an o5m file read back: every id is the previous one of its kind plus the
\* delta, a string reference counts back from the newest string read, and a
\* reset sets the ids to 0 and forgets the strings
ReadString(seen, out) ==
  IF DOMAIN out = {"ref"}
  THEN IF out.ref \in 1..Len(seen) THEN seen[Len(seen) - out.ref + 1] ELSE None
  ELSE out.str

RECURSIVE ReadStrings(_, _)
ReadStrings(seen, outs) ==
  IF outs = <<>> THEN [seen |-> seen, strings |-> <<>>]
  ELSE LET string == ReadString(seen, Head(outs))
           rest == ReadStrings(IF DOMAIN Head(outs) = {"ref"} THEN seen
                               ELSE Append(seen, string), Tail(outs))
       IN [seen |-> rest.seen, strings |-> <<string>> \o rest.strings]

RECURSIVE ReadO5m(_, _, _, _, _)
ReadO5m(datasets, node_id, way_id, ref_id, seen) ==
  IF datasets = <<>> THEN <<>>
  ELSE LET d == Head(datasets) IN
    IF d.type = "reset" THEN ReadO5m(Tail(datasets), 0, 0, 0, <<>>)
    ELSE IF d.type = "header" THEN ReadO5m(Tail(datasets), node_id, way_id, ref_id, seen)
    ELSE IF d.type = "node"
    THEN LET strs == ReadStrings(seen, d.strings) IN
           <<[type |-> "node", id |-> node_id + d.idDelta, strings |-> strs.strings]>>
           \o ReadO5m(Tail(datasets), node_id + d.idDelta, way_id, ref_id, strs.seen)
    ELSE LET strs == ReadStrings(seen, d.strings)
             refs == DeltaDecode(d.refs, ref_id)
         IN <<[type |-> "way", id |-> way_id + d.idDelta, refs |-> refs,
               base |-> ref_id, deltas |-> d.refs, strings |-> strs.strings]>>
            \o ReadO5m(Tail(datasets), node_id, way_id + d.idDelta,
                       refs[Len(refs)], strs.seen)

\* what was given to the encoder, element by element
RECURSIVE GivenElements(_)
GivenElements(given) ==
  IF given = <<>> THEN <<>>
  ELSE LET g == Head(given) IN
    (IF g.type = "node"
     THEN [i \in 1..g.n |-> [type |-> "node", id |-> g.start + i - 1,
                             strings |-> VersionStrings]]
     ELSE [i \in 1..Len(g.ways) |->
             [type |-> "way", id |-> g.start + i - 1,
              refs |-> IdsFrom(g.ways[i].first_node_id, g.ways[i].nb_nodes)
                       \o (IF g.ways[i].closed_loop
                           THEN <<g.ways[i].first_node_id>> ELSE <<>>),
              closed |-> g.ways[i].closed_loop,
              strings |-> VersionStrings \o TagStrings(g.ways[i].elevation)]])
    \o GivenElements(Tail(given))

Ones(n) == [i \in 1..n |-> 1]

\* C22: in the o5m encoder the reference section of a way of `length`
\* distinct nodes is the delta sequence: first node id minus the last node
\* id referenced since the last reset (0 right after a reset), then
\* length - 1 ones, then -(length - 1) for a closed way; summing the deltas
\* from the running base gives first .. first + length - 1 and, for closed
\* ways, a final first.
C22_WayReferenceDeltas ==
  LET read == SelectSeq(ReadO5m(outf, 0, 0, 0, <<>>), LAMBDA e : e.type = "way")
      given == SelectSeq(GivenElements(o5m_given), LAMBDA e : e.type = "way")
  IN /\ Len(read) = Len(given)
     /\ \A i \in 1..Len(read) :
          LET length == Len(given[i].refs) - (IF given[i].closed THEN 1 ELSE 0) IN
            /\ read[i].refs = given[i].refs
            /\ read[i].deltas =
                 <<given[i].refs[1] - read[i].base>> \o Ones(length - 1)
                 \o (IF given[i].closed THEN <<-(length - 1)>> ELSE <<>>)

\* a closed way of two nodes, then a way that starts at a lower node id
C22_Witness ==
  /\ \E i \in 1..Len(o5m_given) :
       /\ o5m_given[i].type = "way"
       /\ Len(o5m_given[i].ways) = 2
       /\ o5m_given[i].ways[1].closed_loop /\ o5m_given[i].ways[1].nb_nodes = 2
       /\ o5m_given[i].ways[1].first_node_id = 2
       /\ o5m_given[i].ways[2].first_node_id = 1
  /\ Len(outf) > 4

IsBlockStart(i, type) ==
  outf[i].type = type /\ (i = 1 \/ outf[i - 1].type # type)

\* C23: in every o5m stream a reset is written at the stream's start, before
\* each block of nodes and before each block of ways; each reset sets the id
\* delta base back to 0 and empties the string table, so the first id after
\* a reset is absolute and no string reference points to an entry from
\* before the reset.
C23_ResetBeforeBlocks ==
  outf # <<>> =>
    /\ outf[1] = ResetDataset
    /\ \A i \in 1..Len(outf) :
         (IsBlockStart(i, "node") \/ IsBlockStart(i, "way"))
           => i > 1 /\ outf[i - 1] = ResetDataset
    /\ \A i \in 2..Len(outf) :
         outf[i - 1] = ResetDataset /\ outf[i].type \in {"node", "way"}
           => \A k \in 1..Len(outf[i].strings) :
                DOMAIN outf[i].strings[k] = {"str"}
    /\ LET read == ReadO5m(outf, 0, 0, 0, <<>>)
           given == GivenElements(o5m_given)
       IN /\ Len(read) = Len(given)
          /\ \A i \in 1..Len(read) :
               /\ read[i].type = given[i].type
               /\ read[i].id = given[i].id
               /\ read[i].strings = given[i].strings

\* two blocks of ways were written with timestamps: the second block's
\* strings were all in the table before its reset
C23_Witness ==
  /\ write_timestamp
  /\ Len(o5m_given) = 2
  /\ o5m_given[1].type = "way" /\ o5m_given[2].type = "way"
  /\ o5m_given[1].ways[1].elevation = o5m_given[2].ways[1].elevation
  /\ string_table # <<>>

\* C27: get_file returns the cached file name without downloading when the
\* cache check passes; otherwise it calls download_missing_file exactly once
\* and checks again, returning the file name if the second check passes and
\* None if the download or the second check fails; it never retries the
\* download and never raises for these failures.
C27_GetFileOutcomes ==
  \A a \in Areas :
    LET c == get_file_calls[a] IN
      c.result # "none" =>
        /\ c.result # "raised"
        /\ c.downloads <= 1
        /\ IF c.checks[1] = "passed"
           THEN c.result = "file_name" /\ c.downloads = 0 /\ Len(c.checks) = 1
           ELSE /\ c.downloads = 1
                /\ c.result = (IF Len(c.checks) = 2 /\ c.checks[2] = "passed"
                               THEN "file_name" ELSE "None")

\* the same as long as the cache directory can be made and the download
\* raises nothing but OSError
GetFileOutcomesOnOSError ==
  \A a \in Areas :
    LET c == get_file_calls[a] IN
      (c.result \notin {"none", "raised"} /\ (c.downloads = 1 \/ c.checks[1] = "passed")) =>
        /\ c.downloads <= 1
        /\ IF c.checks[1] = "passed"
           THEN c.result = "file_name" /\ c.downloads = 0 /\ Len(c.checks) = 1
           ELSE c.result = (IF Len(c.checks) = 2 /\ c.checks[2] = "passed"
                            THEN "file_name" ELSE "None")


\* the seven low binary digits of a byte, lowest first
SevenDigits(v) ==
  <<v % 2, (v \div 2) % 2, (v \div 4) % 2, (v \div 8) % 2,
    (v \div 16) % 2, (v \div 32) % 2, (v \div 64) % 2>>

RECURSIVE WithoutHighZeros(_)
WithoutHighZeros(m) ==
  IF m = <<>> \/ m[Len(m)] = 1 THEN m
  ELSE WithoutHighZeros(SubSeq(m, 1, Len(m) - 1))

RECURSIVE Base128Digits(_)
\* the digits of little-endian base-128 bytes, the first byte the lowest
Base128Digits(bytes) ==
  IF bytes = <<>> THEN <<>>
  ELSE SevenDigits(Head(bytes)) \o Base128Digits(Tail(bytes))

\* the unsigned number that the bytes stand for
DecodeInt(bytes) == WithoutHighZeros(Base128Digits(bytes))

RECURSIVE PlusCarry(_, _, _)
\* addition of two numbers given by their binary digits
PlusCarry(a, b, carry) ==
  IF a = <<>> /\ b = <<>>
    THEN IF carry = 1 THEN <<1>> ELSE <<>>
    ELSE LET x == IF a = <<>> THEN 0 ELSE Head(a)
             y == IF b = <<>> THEN 0 ELSE Head(b)
             t == x + y + carry
         IN  <<t % 2>> \o PlusCarry(IF a = <<>> THEN <<>> ELSE Tail(a),
                                    IF b = <<>> THEN <<>> ELSE Tail(b),
                                    t \div 2)

Plus(a, b) == PlusCarry(a, b, 0)

\* the signed number that the bytes stand for: an even number 2k is k, an
\* odd number 2k + 1 is -(k + 1)
DecodeSint(bytes) ==
  LET u == DecodeInt(bytes)
  IN  IF u = <<>> THEN [neg |-> FALSE, mag |-> <<>>]
      ELSE IF Head(u) = 0 THEN [neg |-> FALSE, mag |-> Tail(u)]
      ELSE [neg |-> TRUE, mag |-> Plus(Tail(u), <<1>>)]

\* every byte but the last has the continuation bit, the last has not
ContinuationBits(bytes) ==
  /\ Len(bytes) >= 1
  /\ \A i \in 1..(Len(bytes) - 1) : bytes[i] \in 128..255
  /\ bytes[Len(bytes)] \in 0..127

\* -2^63 <= n < 2^63
InSigned64(x) ==
  \/ Len(x.mag) <= 63
  \/ x.neg /\ x.mag = TwoPower(63)

\* C25: varint encoding is lossless. sint2str(n) for n in [-2^63, 2^63) is
\* the little-endian base-128 writing, with a continuation bit on every byte
\* but the last, of the zig-zag number (2n for n >= 0, 2(-n-1)+1 for n < 0),
\* and decoding it gives n; int2str(n) for an unsigned n is the same writing
\* of n, and decoding it gives n.
C25_VarintLossless ==
  /\ (varint_fun = "sint2str" /\ InSigned64(varint_n)) =>
       /\ ContinuationBits(varint_bytes)
       /\ DecodeSint(varint_bytes) = varint_n
       /\ ~varint_n.neg =>
            DecodeInt(varint_bytes) = Plus(varint_n.mag, varint_n.mag)
       /\ varint_n.neg =>
            Plus(DecodeInt(varint_bytes), <<1>>) =
              Plus(varint_n.mag, varint_n.mag)
  /\ varint_fun = "int2str" =>
       /\ ContinuationBits(varint_bytes)
       /\ DecodeInt(varint_bytes) = varint_n.mag

\* sint2str(-2^63) has been written: ten bytes, 2^64 - 1 in base 128
C25_Witness ==
  /\ varint_fun = "sint2str"
  /\ varint_n = [neg |-> TRUE, mag |-> TwoPower(63)]
  /\ varint_bytes = <<255, 255, 255, 255, 255, 255, 255, 255, 255, 1>>

====
